---- MODULE Spec2Model ----
(***************************************************************************)
(* A model of the natural-language query and period-comparison engine of   *)
(* google-ads-analyzer: DynamicAnalysisEngine (dynamic-analysis-engine.js) *)
(* and the flexible-analysis handlers of the server.                       *)
(*                                                                         *)
(* JavaScript numbers are IEEE-754 binary floating point values.  They are *)
(* modelled as m * 2^e with an odd integer mantissa m of at most MantBits  *)
(* bits; every arithmetic operator rounds its exact result to the nearest  *)
(* such value, ties to the even mantissa, as the hardware does with 53     *)
(* bits.  The exponent is not bounded: the inputs stay far from the        *)
(* overflow and underflow thresholds of a double.                          *)
(***************************************************************************)
EXTENDS Integers, Sequences, FiniteSets, TLC

\* Width of the mantissa of a number (53 in a double).
MantBits == 13

\* Longest row sequence handed to the engine.
MaxRows == 3

---------------------------------------------------------------------------
(* Numbers *)

Pow2(n) == IF n <= 0 THEN 1 ELSE 2 ^ n

Pow10(n) == IF n <= 0 THEN 1 ELSE 10 ^ n

Abs(i) == IF i < 0 THEN -i ELSE i

Min(a, b) == IF a < b THEN a ELSE b

RECURSIVE BitLen(_)
BitLen(n) == IF n <= 0 THEN 0 ELSE 1 + BitLen(n \div 2)

\* The values a JavaScript expression of the engine can hold where a number
\* is expected: a finite number, NaN, an infinity, or undefined.
Num(m, e) == [k |-> "fin", m |-> m, e |-> e]
Zero == Num(0, 0)
NaN == [k |-> "nan", m |-> 0, e |-> 0]
Infinity(neg) == [k |-> "inf", m |-> IF neg THEN -1 ELSE 1, e |-> 0]
Undefined == [k |-> "undef", m |-> 0, e |-> 0]

IsFinite(x) == x.k = "fin"

\* The one representation of m * 2^e: an odd mantissa.
RECURSIVE Canon(_, _)
Canon(m, e) ==
  IF m = 0 THEN Zero
  ELSE IF m % 2 = 0 THEN Canon(m \div 2, e + 1)
  ELSE Num(m, e)

\* floor(log2 |x|) of a finite non-zero number.
Mag(x) == x.e + BitLen(Abs(x.m)) - 1

\* The least denominator d * 2^j (with the exponent moved accordingly) for
\* which the integer part of n / denominator fits the mantissa.
RECURSIVE ScaleDen(_, _, _)
ScaleDen(n, d, e) ==
  IF n \div Pow2(MantBits) >= d THEN ScaleDen(n, 2 * d, e + 1) ELSE <<d, e>>

\* Long division: quotient bits are produced until the mantissa is full or
\* the division is exact.
RECURSIVE Extend(_, _, _, _)
Extend(q, r, d, e) ==
  IF q >= Pow2(MantBits - 1) \/ r = 0 THEN <<q, r, e>>
  ELSE IF 2 * r >= d THEN Extend(2 * q + 1, 2 * r - d, d, e - 1)
  ELSE Extend(2 * q, 2 * r, d, e - 1)

\* The number nearest to (n / d) * 2^e (n >= 0, d > 0), ties to even: the
\* rounding IEEE-754 applies to the exact result of every operation.
RoundDigits(neg, x, d) ==
  Canon((IF neg THEN -1 ELSE 1)
          * (IF 2 * x[2] > d \/ (2 * x[2] = d /\ x[1] % 2 = 1) THEN x[1] + 1 ELSE x[1]),
        x[3])

DivideScaled(neg, n, sd) ==
  RoundDigits(neg, Extend(n \div sd[1], n % sd[1], sd[1], sd[2]), sd[1])

RoundRat(neg, n, d, e) ==
  IF n = 0 THEN Zero ELSE DivideScaled(neg, n, ScaleDen(n, d, e))

\* An integer literal or an integer-valued number.
Int2Num(i) == RoundRat(i < 0, Abs(i), 1, 0)

\* The number a decimal literal n / 10^digits denotes (JSON.parse, parseFloat).
Dec2Num(n, digits) == RoundRat(n < 0, Abs(n), Pow10(digits), 0)

\* a + b
Add(x, y) ==
  IF x.k \in {"nan", "undef"} \/ y.k \in {"nan", "undef"} THEN NaN
  ELSE IF x.k = "inf" /\ y.k = "inf" THEN (IF x.m = y.m THEN x ELSE NaN)
  ELSE IF x.k = "inf" THEN x
  ELSE IF y.k = "inf" THEN y
  ELSE IF x.m = 0 THEN y
  ELSE IF y.m = 0 THEN x
  ELSE IF Mag(x) - Mag(y) >= MantBits + 2 THEN x
  ELSE IF Mag(y) - Mag(x) >= MantBits + 2 THEN y
  ELSE LET e == Min(x.e, y.e)
           s == x.m * Pow2(x.e - e) + y.m * Pow2(y.e - e)
       IN  RoundRat(s < 0, Abs(s), 1, e)

Neg(x) == IF x.k \in {"fin", "inf"} THEN [x EXCEPT !.m = -x.m] ELSE NaN

\* a - b
Sub(x, y) == Add(x, Neg(y))

\* a / b
Div(x, y) ==
  IF x.k \in {"nan", "undef"} \/ y.k \in {"nan", "undef"} THEN NaN
  ELSE IF x.k = "inf" THEN (IF y.k = "inf" THEN NaN
                            ELSE Infinity((x.m < 0) # (y.m < 0)))
  ELSE IF y.k = "inf" THEN Zero
  ELSE IF y.m = 0 THEN (IF x.m = 0 THEN NaN ELSE Infinity(x.m < 0))
  ELSE RoundRat((x.m < 0) # (y.m < 0), Abs(x.m), Abs(y.m), x.e - y.e)

\* a / d for an integer literal d > 0 that a double holds exactly (the
\* quotient is rounded, the divisor is not).
DivByInt(x, d) ==
  IF x.k \in {"nan", "undef"} THEN NaN
  ELSE IF x.k = "inf" THEN x
  ELSE RoundRat(x.m < 0, Abs(x.m), d, x.e)

\* a * b
Mul(x, y) ==
  IF x.k \in {"nan", "undef"} \/ y.k \in {"nan", "undef"} THEN NaN
  ELSE IF x.k = "inf" \/ y.k = "inf"
       THEN (IF x.m = 0 \/ y.m = 0 THEN NaN
             ELSE Infinity((x.m < 0) # (y.m < 0)))
  ELSE RoundRat((x.m < 0) # (y.m < 0), Abs(x.m) * Abs(y.m), 1, x.e + y.e)

\* a < b on positive finite numbers.
LtPos(x, y) ==
  IF Mag(x) # Mag(y) THEN Mag(x) < Mag(y)
  ELSE LET e == Min(x.e, y.e)
       IN  x.m * Pow2(x.e - e) < y.m * Pow2(y.e - e)

\* a < b (false when either side is NaN or undefined).
Lt(x, y) ==
  IF x.k \in {"nan", "undef"} \/ y.k \in {"nan", "undef"} THEN FALSE
  ELSE IF x.k = "inf" THEN x.m < 0 /\ y # x
  ELSE IF y.k = "inf" THEN y.m > 0
  ELSE IF x.m <= 0 /\ y.m > 0 THEN TRUE
  ELSE IF x.m < 0 /\ y.m = 0 THEN TRUE
  ELSE IF x.m >= 0 /\ y.m <= 0 THEN FALSE
  ELSE IF x.m > 0 THEN LtPos(x, y)
  ELSE LtPos(Neg(y), Neg(x))

\* a > b
Gt(x, y) == Lt(y, x)

\* Math.abs(a)
MathAbs(x) == IF x.k \in {"fin", "inf"} THEN [x EXCEPT !.m = Abs(x.m)] ELSE NaN

\* a || 0: undefined, NaN and 0 are falsy.
OrZero(x) == IF x.k = "fin" \/ x.k = "inf" THEN x ELSE Zero

---------------------------------------------------------------------------
(* Formatted numbers *)

\* The text Number.prototype.toFixed produces, with the '%' the engine may
\* append: the decimal numeral [-]n / 10^digits written with `digits`
\* fraction digits, or "NaN" / "Infinity".
Numeral(neg, n, digits, pct) ==
  [txt |-> "num", neg |-> neg, n |-> n, digits |-> digits, pct |-> pct]

\* x.toFixed(digits): the exact value of x rounded to `digits` decimals,
\* ties away from zero.
ToFixed(x, digits) ==
  IF x.k \in {"nan", "undef"} THEN [Numeral(FALSE, 0, digits, FALSE) EXCEPT !.txt = "NaN"]
  ELSE IF x.k = "inf" THEN [Numeral(x.m < 0, 0, digits, FALSE) EXCEPT !.txt = "Infinity"]
  ELSE LET a == Abs(x.m) * Pow10(digits)
           n == IF x.e >= 0 THEN a * Pow2(x.e)
                ELSE IF BitLen(a) + x.e < 0 THEN 0
                ELSE (2 * a + Pow2(-x.e)) \div Pow2(1 - x.e)
       IN  Numeral(x.m < 0, n, digits, FALSE)

\* s + '%'
Percent(s) == [s EXCEPT !.pct = TRUE]

\* The literals '0' and '0%' of the zero guards.
Str0 == Numeral(FALSE, 0, 0, FALSE)
Str0Pct == Numeral(FALSE, 0, 0, TRUE)

IsStr(v) == "txt" \in DOMAIN v

\* parseFloat(v): of a string, the number its leading numeral denotes (a
\* trailing '%' is ignored); of a number, the number itself (it is converted
\* to its shortest round-tripping text first).
ParseFloat(v) ==
  IF IsStr(v)
  THEN (IF v.txt = "NaN" THEN NaN
        ELSE IF v.txt = "Infinity" THEN Infinity(v.neg)
        ELSE RoundRat(v.neg, v.n, Pow10(v.digits), 0))
  ELSE IF v.k = "undef" THEN NaN ELSE v

---------------------------------------------------------------------------
(* Rows *)

\* The measures of a row that the engine reads.  A row without a `metrics`
\* object reads as a row whose measures are all undefined (item.metrics?.x).
MetricsOf(cost, conv, clicks, value, impr) ==
  [cost_micros |-> cost, conversions |-> conv, clicks |-> clicks,
   conversions_value |-> value, impressions |-> impr]

NoMetrics == MetricsOf(Undefined, Undefined, Undefined, Undefined, Undefined)

\* A calendar date 'YYYY-MM-DD' as <<year, month, day>>; <<>> when absent.
NoDate == <<>>

\* A row: campaign.name, metrics, segments.date and the row's own date.
Row(name, metrics, segDate, date) ==
  [name |-> name, metrics |-> metrics, segmentsDate |-> segDate, date |-> date]

---------------------------------------------------------------------------
(* DynamicAnalysisEngine: aggregation *)

\* The reducer of calculatePeriodMetrics: one row added to the totals.
AccumulateTotals(acc, item) ==
  [spend       |-> Add(acc.spend, DivByInt(OrZero(item.metrics.cost_micros), 1000000)),
   conversions |-> Add(acc.conversions, OrZero(item.metrics.conversions)),
   clicks      |-> Add(acc.clicks, OrZero(item.metrics.clicks)),
   revenue     |-> Add(acc.revenue, OrZero(item.metrics.conversions_value)),
   impressions |-> Add(acc.impressions, OrZero(item.metrics.impressions))]

\* data.reduce(reducer, acc): left to right.
RECURSIVE ReduceTotals(_, _)
ReduceTotals(data, acc) ==
  IF data = <<>> THEN acc
  ELSE ReduceTotals(Tail(data), AccumulateTotals(acc, Head(data)))

ZeroTotals ==
  [spend |-> Zero, conversions |-> Zero, clicks |-> Zero, revenue |-> Zero,
   impressions |-> Zero]

\* calculatePeriodMetrics with the spend guard of roas dropped.
RoasOf_Unguarded(revenue, spend) == ToFixed(Div(revenue, spend), 2)

\* The three guarded ratios of calculatePeriodMetrics.
RoasOf(revenue, spend) ==
  IF Gt(spend, Zero) THEN ToFixed(Div(revenue, spend), 2) ELSE Str0

ConversionRateOf(conversions, clicks) ==
  IF Gt(clicks, Zero)
  THEN Percent(ToFixed(Mul(Div(conversions, clicks), Int2Num(100)), 2))
  ELSE Str0Pct

\* ctr guarded by the wrong total (clicks instead of impressions).
CtrOf_WrongGuard(clicks, impressions) ==
  IF Gt(clicks, Zero)
  THEN Percent(ToFixed(Mul(Div(clicks, impressions), Int2Num(100)), 2))
  ELSE Str0Pct

CtrOf(clicks, impressions) ==
  IF Gt(impressions, Zero)
  THEN Percent(ToFixed(Mul(Div(clicks, impressions), Int2Num(100)), 2))
  ELSE Str0Pct

\* The object calculatePeriodMetrics returns for the totals of its reducer.
PeriodMetricsOf(totals, campaigns, label) ==
  [label          |-> label,
   campaigns      |-> campaigns,
   spend          |-> ToFixed(totals.spend, 2),
   conversions    |-> totals.conversions,
   clicks         |-> totals.clicks,
   revenue        |-> ToFixed(totals.revenue, 2),
   impressions    |-> totals.impressions,
   roas           |-> RoasOf(totals.revenue, totals.spend),
   conversionRate |-> ConversionRateOf(totals.conversions, totals.clicks),
   ctr            |-> CtrOf(totals.clicks, totals.impressions)]

calculatePeriodMetrics(data, label) ==
  PeriodMetricsOf(ReduceTotals(data, ZeroTotals), Len(data), label)

---------------------------------------------------------------------------
(* DynamicAnalysisEngine: comparison *)

ChangeMetrics == <<"spend", "conversions", "clicks", "revenue">>

\* parseFloat(period[metric]) || 0
MetricValue(period, metric) == OrZero(ParseFloat(period[metric]))

\* The guard of a change entry letting a zero baseline through.
HasChange_ZeroFilled(val2) == ~Lt(val2, Zero)

\* The guard of a change entry.
HasChange(val2) == Gt(val2, Zero)

DirectionOf(change) == IF Gt(change, Zero) THEN "increase" ELSE "decrease"

\* The magnitude threshold made inclusive.
MagnitudeOf_Inclusive(change) ==
  IF Lt(MathAbs(change), Int2Num(20)) THEN "modest" ELSE "significant"

MagnitudeOf(change) ==
  IF Gt(MathAbs(change), Int2Num(20)) THEN "significant" ELSE "modest"

\* ((val1 - val2) / val2) * 100
PercentChange(val1, val2) == Mul(Div(Sub(val1, val2), val2), Int2Num(100))

\* changes[metric] for the difference and the percentage computed.
ChangeRecord(absolute, change) ==
  [absolute   |-> absolute,
   percentage |-> Percent(ToFixed(change, 1)),
   direction  |-> DirectionOf(change),
   magnitude  |-> MagnitudeOf(change)]

ChangeEntry(val1, val2) == ChangeRecord(Sub(val1, val2), PercentChange(val1, val2))

\* comparison.changes: an entry for each metric that passes the guard.
ChangesOf(period1, period2) ==
  [metric \in {ChangeMetrics[i] : i \in
                 {j \in 1..Len(ChangeMetrics) :
                    HasChange(MetricValue(period2, ChangeMetrics[j]))}} |->
     ChangeEntry(MetricValue(period1, metric), MetricValue(period2, metric))]

ConversionsImproved(changes) ==
  "conversions" \in DOMAIN changes /\ changes["conversions"].direction = "increase"

\* The ROAS insight firing on equal ROAS too.
RoasImproved_OrEqual(period1, period2) ==
  ~Lt(ParseFloat(period1.roas), ParseFloat(period2.roas))

RoasImproved(period1, period2) ==
  Gt(ParseFloat(period1.roas), ParseFloat(period2.roas))

ConversionsInsight(changes, period2Label) ==
  [type |-> "positive", about |-> "Conversions improved by",
   by |-> changes["conversions"].percentage, versus |-> period2Label]

RoasInsight(period1, period2) ==
  [type |-> "positive", about |-> "ROAS improved by",
   by |-> ToFixed(Sub(ParseFloat(period1.roas), ParseFloat(period2.roas)), 2),
   roas1 |-> period1.roas, roas2 |-> period2.roas]

InsightsOf(period1, period2, changes, period2Label) ==
  (IF ConversionsImproved(changes)
   THEN <<ConversionsInsight(changes, period2Label)>> ELSE <<>>)
  \o (IF RoasImproved(period1, period2)
      THEN <<RoasInsight(period1, period2)>> ELSE <<>>)

\* The comparison object comparePerformance returns.
ComparisonOf(period1, period2, changes, period2Label) ==
  [period1  |-> period1,
   period2  |-> period2,
   changes  |-> changes,
   insights |-> InsightsOf(period1, period2, changes, period2Label)]

ComparePeriodMetrics(period1, period2, period2Label) ==
  ComparisonOf(period1, period2, ChangesOf(period1, period2), period2Label)

comparePerformance(period1Data, period2Data, period1Label, period2Label) ==
  ComparePeriodMetrics(calculatePeriodMetrics(period1Data, period1Label),
                       calculatePeriodMetrics(period2Data, period2Label), period2Label)

---------------------------------------------------------------------------
(* DynamicAnalysisEngine: seasons *)

\* getSeason with the upper bound of Fall one month too far.
getSeason_DecemberFall(month) ==
  IF month >= 2 /\ month <= 4 THEN "Spring"
  ELSE IF month >= 5 /\ month <= 7 THEN "Summer"
  ELSE IF month >= 8 /\ month <= 11 THEN "Fall"
  ELSE "Winter"

getSeason(month) ==
  IF month >= 2 /\ month <= 4 THEN "Spring"
  ELSE IF month >= 5 /\ month <= 7 THEN "Summer"
  ELSE IF month >= 8 /\ month <= 10 THEN "Fall"
  ELSE "Winter"

\* new Date('YYYY-MM-DD').getMonth(): the text is read as midnight UTC and
\* the month is taken in the server's time zone, so west of Greenwich the
\* first day of a month still belongs to the month before.
LocalMonth(d, tzBehind) ==
  IF tzBehind /\ d[3] = 1 THEN (d[2] + 10) % 12 ELSE d[2] - 1

\* new Date(data.segments?.date || data.date || Date.now()).getMonth()
RowMonth(data, nowMonth, tzBehind) ==
  IF data.segmentsDate # NoDate THEN LocalMonth(data.segmentsDate, tzBehind)
  ELSE IF data.date # NoDate THEN LocalMonth(data.date, tzBehind)
  ELSE nowMonth

NewSeason == [spend |-> Zero, conversions |-> Zero, revenue |-> Zero, campaigns |-> 0]

\* The body of the forEach that fills monthlyData.
AddToSeason(old, data) ==
  [spend       |-> Add(old.spend, DivByInt(OrZero(data.metrics.cost_micros), 1000000)),
   conversions |-> Add(old.conversions, OrZero(data.metrics.conversions)),
   revenue     |-> Add(old.revenue, OrZero(data.metrics.conversions_value)),
   campaigns   |-> old.campaigns + 1]

SeasonData(monthlyData, season) ==
  IF season \in DOMAIN monthlyData THEN monthlyData[season] ELSE NewSeason

AccumulateInto(monthlyData, data, season) ==
  [s \in DOMAIN monthlyData \cup {season} |->
     IF s = season THEN AddToSeason(SeasonData(monthlyData, season), data)
     ELSE monthlyData[s]]

AccumulateSeason(monthlyData, data, nowMonth, tzBehind) ==
  AccumulateInto(monthlyData, data, getSeason(RowMonth(data, nowMonth, tzBehind)))

RECURSIVE GroupBySeason(_, _, _, _)
GroupBySeason(campaignData, monthlyData, nowMonth, tzBehind) ==
  IF campaignData = <<>> THEN monthlyData
  ELSE GroupBySeason(Tail(campaignData),
                     AccumulateSeason(monthlyData, Head(campaignData), nowMonth, tzBehind),
                     nowMonth, tzBehind)

\* Math.round(x): floor(x + 1/2) of the exact value, as an integer.
MathRound(x) ==
  IF x.e >= 0 THEN x.m * Pow2(x.e)
  ELSE IF BitLen(Abs(x.m)) + x.e < 0 THEN 0
  ELSE (2 * x.m + Pow2(-x.e)) \div Pow2(1 - x.e)

\* The guarded ratio of a season.
SeasonRoasOf(revenue, spend) ==
  IF Gt(spend, Zero) THEN ToFixed(Div(revenue, spend), 2) ELSE Str0

SeasonSummary(data) ==
  [totalSpend       |-> ToFixed(data.spend, 2),
   totalConversions |-> data.conversions,
   roas             |-> SeasonRoasOf(data.revenue, data.spend),
   avgCampaigns     |-> MathRound(Div(Int2Num(data.campaigns), Int2Num(3)))]

\* detectSeasonalPatterns(campaignData, dateRanges); dateRanges is not read.
\* The patterns object built from monthlyData.
PatternsOf(monthlyData) ==
  [seasonal        |-> [s \in DOMAIN monthlyData |-> SeasonSummary(monthlyData[s])],
   trends          |-> <<>>,
   recommendations |-> <<>>]

detectSeasonalPatterns(campaignData, nowMonth, tzBehind) ==
  PatternsOf(GroupBySeason(campaignData, <<>>, nowMonth, tzBehind))

---------------------------------------------------------------------------
(* Text and regular expressions *)

\* A string is a TLA+ string; Len, SubSeq and \o are length, substring and
\* concatenation.  CharAt(s, i) is the i-th character (1-based).
CharAt(s, i) == SubSeq(s, i, i)

LowerLetters ==
  <<"a", "b", "c", "d", "e", "f", "g", "h", "i", "j", "k", "l", "m",
    "n", "o", "p", "q", "r", "s", "t", "u", "v", "w", "x", "y", "z">>

UpperLetters ==
  <<"A", "B", "C", "D", "E", "F", "G", "H", "I", "J", "K", "L", "M",
    "N", "O", "P", "Q", "R", "S", "T", "U", "V", "W", "X", "Y", "Z">>

Digits == <<"0", "1", "2", "3", "4", "5", "6", "7", "8", "9">>

LowerChar(c) ==
  IF \E i \in DOMAIN UpperLetters : UpperLetters[i] = c
  THEN LowerLetters[CHOOSE i \in DOMAIN UpperLetters : UpperLetters[i] = c]
  ELSE c

\* String.prototype.toLowerCase
RECURSIVE toLowerCase(_)
toLowerCase(s) ==
  IF s = "" THEN "" ELSE LowerChar(CharAt(s, 1)) \o toLowerCase(SubSeq(s, 2, Len(s)))

\* The character classes \w, \d and \s of a regular expression.
WordChars ==
  {LowerLetters[i] : i \in DOMAIN LowerLetters} \cup
  {UpperLetters[i] : i \in DOMAIN UpperLetters} \cup
  {Digits[i] : i \in DOMAIN Digits} \cup {"_"}

DigitChars == {Digits[i] : i \in DOMAIN Digits}

SpaceChars == {" ", "\t", "\n"}

\* A regular expression is run as a set of positions: S holds the indexes
\* at which the rest of the pattern may continue.  Anywhere(s) starts an
\* unanchored search.
Anywhere(s) == 1..(Len(s) + 1)

\* The positions after the literal `lit`.
Lit(s, S, lit) ==
  {i + Len(lit) : i \in {j \in S : j + Len(lit) - 1 <= Len(s)
                                   /\ SubSeq(s, j, j + Len(lit) - 1) = lit}}

\* The positions after any one of the literals (a|b|c).
AnyLit(s, S, lits) == UNION {Lit(s, S, lit) : lit \in lits}

\* The positions after one or more characters of the class (\w+, \s+).
Plus(s, S, class) ==
  {k \in 2..(Len(s) + 1) :
     \E i \in S : i < k /\ \A t \in i..(k - 1) : CharAt(s, t) \in class}

\* The positions after exactly n characters of the class (\d{4}).
Times(s, S, class, n) ==
  {i + n : i \in {j \in S : j + n - 1 <= Len(s)
                            /\ \A t \in j..(j + n - 1) : CharAt(s, t) \in class}}

\* The positions after an optional literal (s?).
Opt(s, S, lit) == S \cup Lit(s, S, lit)

\* /a|b|c/i.test(s) for literal alternatives written in lower case.
TestAny(s, lits) == AnyLit(toLowerCase(s), Anywhere(s), lits) # {}

\* String.prototype.includes
Includes(s, part) == Lit(s, Anywhere(s), part) # {}

\* The end of the run of class characters that starts at i (i itself when
\* there is none): where a greedy \w+ or \s+ stops.
RECURSIVE RunEnd(_, _, _)
RunEnd(s, i, class) ==
  IF i <= Len(s) /\ CharAt(s, i) \in class THEN RunEnd(s, i + 1, class) ELSE i

\* null and undefined; a value is truthy when it is neither of them nor ''.
Null == "<null>"
Truthy(v) == v # Null /\ v # ""

\* Number.prototype.toString of a non-negative integer, and
\* String.prototype.padStart(2, '0') of it.
RECURSIVE IntToString(_)
IntToString(n) ==
  IF n < 10 THEN Digits[n + 1] ELSE IntToString(n \div 10) \o Digits[(n % 10) + 1]

PadStart2(str) == IF Len(str) < 2 THEN "0" \o str ELSE str

\* parseInt of a string of decimal digits.
RECURSIVE ParseInt(_)
ParseInt(str) ==
  IF str = "" THEN 0
  ELSE 10 * ParseInt(SubSeq(str, 1, Len(str) - 1))
       + (CHOOSE d \in 0..9 : Digits[d + 1] = CharAt(str, Len(str)))

---------------------------------------------------------------------------
(* DynamicAnalysisEngine: date requests *)

\* The clock as `new Date()` shows it: the local year and month (1..12) and
\* the UTC calendar date <<year, month, day>>.
Clock(year, month, utcDate) == [year |-> year, month |-> month, utcDate |-> utcDate]

IsLeapYear(y) == (y % 4 = 0 /\ y % 100 # 0) \/ y % 400 = 0

\* new Date(year, month, 0).getDate(): the length of month 1..12 of the
\* year; the Date constructor reads a year 0..99 as 1900 + year.
DaysInMonth(year, month) ==
  LET y == IF year \in 0..99 THEN 1900 + year ELSE year
  IN  IF month = 2 THEN (IF IsLeapYear(y) THEN 29 ELSE 28)
      ELSE IF month \in {4, 6, 9, 11} THEN 30 ELSE 31

\* The calendar date n days before <<y, m, d>>.
RECURSIVE DaysBefore(_, _)
DaysBefore(date, n) ==
  IF date[3] - n >= 1 THEN <<date[1], date[2], date[3] - n>>
  ELSE LET py == IF date[2] = 1 THEN date[1] - 1 ELSE date[1]
           pm == IF date[2] = 1 THEN 12 ELSE date[2] - 1
       IN  DaysBefore(<<py, pm, DaysInMonth(py, pm)>>, n - date[3])

\* date.toISOString().split('T')[0]
IsoDate(date) ==
  IntToString(date[1]) \o "-" \o PadStart2(IntToString(date[2])) \o "-"
    \o PadStart2(IntToString(date[3]))

MonthNumbers ==
  [january |-> 1, jan |-> 1, february |-> 2, feb |-> 2, march |-> 3, mar |-> 3,
   april |-> 4, apr |-> 4, may |-> 5, june |-> 6, jun |-> 6, july |-> 7, jul |-> 7,
   august |-> 8, aug |-> 8, september |-> 9, sep |-> 9, october |-> 10, oct |-> 10,
   november |-> 11, nov |-> 11, december |-> 12, dec |-> 12]

\* What `months` inherits from Object.prototype under a lower-case name made
\* of word characters, by the text its toString() gives: the constructor
\* Object and the prototype object.
InheritedMembers ==
  ("constructor" :> "function Object() { [native code] }") @@
  ("__proto__" :> "[object Object]")

\* months[monthStr.toLowerCase()] || 1: the number of the month, or the
\* member `months` inherits under that name (which is truthy).
parseMonth(monthStr) ==
  LET key == toLowerCase(monthStr)
  IN  IF key \in DOMAIN MonthNumbers THEN [number |-> MonthNumbers[key]]
      ELSE IF key \in DOMAIN InheritedMembers THEN [member |-> key]
      ELSE [number |-> 1]

MonthNames ==
  <<"January", "February", "March", "April", "May", "June",
    "July", "August", "September", "October", "November", "December">>

\* getMonthName reading months[monthNum].
getMonthName_ZeroBased(monthNum) ==
  IF monthNum + 1 \in DOMAIN MonthNames THEN MonthNames[monthNum + 1] ELSE "Unknown"

getMonthName(monthNum) ==
  IF monthNum \in DOMAIN MonthNames THEN MonthNames[monthNum] ELSE "Unknown"

Interval(start, end, label) == [start |-> start, end |-> end, label |-> label]

\* The initial value of result.comparison: no dates, an empty label.
NoInterval == Interval(Null, Null, "")

\* /(?:this|current)\s+(\w+)\s+vs\s+last\s+year/i
yoyPattern(s) ==
  LET l  == toLowerCase(s)
      a  == Plus(l, AnyLit(l, Anywhere(l), {"this", "current"}), SpaceChars)
      b  == Plus(l, Plus(l, a, WordChars), SpaceChars)
      c  == Plus(l, Lit(l, b, "vs"), SpaceChars)
      d  == Plus(l, Lit(l, c, "last"), SpaceChars)
  IN  Lit(l, d, "year") # {}

\* /same\s+time\s+last\s+year|year\s+over\s+year|yoy/i
lastYearSame(s) ==
  LET l  == toLowerCase(s)
      a  == Plus(l, Lit(l, Anywhere(l), "same"), SpaceChars)
      b  == Plus(l, Lit(l, a, "time"), SpaceChars)
      c  == Plus(l, Lit(l, b, "last"), SpaceChars)
      d  == Plus(l, Lit(l, Anywhere(l), "year"), SpaceChars)
      e  == Plus(l, Lit(l, d, "over"), SpaceChars)
  IN  \/ Lit(l, c, "year") # {}
      \/ Lit(l, e, "year") # {}
      \/ Lit(l, Anywhere(l), "yoy") # {}

\* /(?:4th of july|july 4th|fourth of july|independence day)/i
holidayPattern(s) ==
  TestAny(s, {"4th of july", "july 4th", "fourth of july", "independence day"})

\* \d{4}-\d{2}-\d{2}
DateShape(l, S) ==
  Times(l, Lit(l, Times(l, Lit(l, Times(l, S, DigitChars, 4), "-"), DigitChars, 2), "-"),
        DigitChars, 2)

\* /from\s+(\d{4}-\d{2}-\d{2})\s+to\s+(\d{4}-\d{2}-\d{2})/i from position i.
CustomRangeAt(l, i) ==
  LET a == DateShape(l, Plus(l, Lit(l, {i}, "from"), SpaceChars))
      b == Plus(l, Lit(l, Plus(l, a, SpaceChars), "to"), SpaceChars)
  IN  DateShape(l, b) # {}

customRange(s) == \E i \in Anywhere(s) : CustomRangeAt(toLowerCase(s), i)

\* The two dates query.match(customRange) captures: the leftmost match.
CustomRangeMatch(s) ==
  LET l  == toLowerCase(s)
      i  == CHOOSE j \in Anywhere(s) :
              CustomRangeAt(l, j) /\ \A k \in 1..(j - 1) : ~CustomRangeAt(l, k)
      d1 == RunEnd(l, i + 4, SpaceChars)
      d2 == RunEnd(l, RunEnd(l, d1 + 10, SpaceChars) + 2, SpaceChars)
  IN  <<SubSeq(s, d1, d1 + 9), SubSeq(s, d2, d2 + 9)>>

\* /(\w+)\s+(\d{4})/i from position i.
MonthYearAt(l, i) ==
  Times(l, Plus(l, Plus(l, {i}, WordChars), SpaceChars), DigitChars, 4) # {}

monthYear(s) == \E i \in Anywhere(s) : MonthYearAt(s, i)

\* The word and the four digits query.match(monthYear) captures.
MonthYearMatch(s) ==
  LET i == CHOOSE j \in Anywhere(s) :
             MonthYearAt(s, j) /\ \A k \in 1..(j - 1) : ~MonthYearAt(s, k)
      e == RunEnd(s, i, WordChars)
      y == RunEnd(s, e, SpaceChars)
  IN  <<SubSeq(s, i, e - 1), SubSeq(s, y, y + 3)>>

\* The interval of month `month` of `year`, as parseDateRequest writes it.
MonthInterval(year, month, label) ==
  LET ym == IntToString(year) \o "-" \o PadStart2(IntToString(month)) \o "-"
  IN  Interval(ym \o "01", ym \o IntToString(DaysInMonth(year, month)), label)

\* The branch of parseDateRequest a query takes, with the branches for an
\* explicit range and for a month tried in the opposite order.
DatePatternOf_MonthFirst(query) ==
  IF yoyPattern(query) \/ lastYearSame(query) THEN "yearOverYear"
  ELSE IF monthYear(query) THEN "monthYear"
  ELSE IF customRange(query) THEN "customRange"
  ELSE "default"

\* The branch of parseDateRequest a query takes: its if / else-if chain.
DatePatternOf(query) ==
  IF yoyPattern(query) \/ lastYearSame(query) THEN "yearOverYear"
  ELSE IF customRange(query) THEN "customRange"
  ELSE IF monthYear(query) THEN "monthYear"
  ELSE "default"

\* result of the year-over-year branch.
YearOverYear(query, now) ==
  LET thisYear == now.year
      lastYear == thisYear - 1
  IN  IF holidayPattern(query)
      THEN [type       |-> "comparison",
            primary    |-> Interval(IntToString(thisYear) \o "-06-15",
                                    IntToString(thisYear) \o "-07-15",
                                    "July 4th " \o IntToString(thisYear)),
            comparison |-> Interval(IntToString(lastYear) \o "-06-15",
                                    IntToString(lastYear) \o "-07-15",
                                    "July 4th " \o IntToString(lastYear))]
      ELSE LET currentMonth == now.month
           IN  [type       |-> "comparison",
                primary    |-> MonthInterval(thisYear, currentMonth,
                                 getMonthName(currentMonth) \o " " \o IntToString(thisYear)),
                comparison |-> MonthInterval(lastYear, currentMonth,
                                 getMonthName(currentMonth) \o " " \o IntToString(lastYear))]

\* The custom date range branch with the two captures exchanged.
CustomRange_Swapped(match) ==
  [type       |-> "single",
   primary    |-> Interval(match[2], match[1], match[2] \o " to " \o match[1]),
   comparison |-> NoInterval]

\* result of the custom date range branch, for what the pattern captured.
CustomRange(match) ==
  [type       |-> "single",
   primary    |-> Interval(match[1], match[2], match[1] \o " to " \o match[2]),
   comparison |-> NoInterval]

\* result of the month/year branch, for what the pattern captured.
\* A month that is no number gives its text in the dates and, its day count
\* being NaN, "NaN" as the last day.
MonthOfYear(match, month, year) ==
  [type       |-> "single",
   primary    |->
     IF "number" \in DOMAIN month
     THEN MonthInterval(year, month.number, match[1] \o " " \o IntToString(year))
     ELSE Interval(IntToString(year) \o "-" \o InheritedMembers[month.member] \o "-01",
                   IntToString(year) \o "-" \o InheritedMembers[month.member] \o "-NaN",
                   match[1] \o " " \o IntToString(year)),
   comparison |-> NoInterval]

\* result of the default branch: the last 30 days.
LastThirtyDays(now) ==
  [type       |-> "single",
   primary    |-> Interval(IsoDate(DaysBefore(now.utcDate, 30)), IsoDate(now.utcDate),
                           "Last 30 Days"),
   comparison |-> NoInterval]

\* The result of the branch `pattern` for the query.
DateRequestOf(pattern, query, now) ==
  IF pattern = "yearOverYear" THEN YearOverYear(query, now)
  ELSE IF pattern = "customRange" THEN CustomRange(CustomRangeMatch(query))
  ELSE IF pattern = "monthYear"
  THEN MonthOfYear(MonthYearMatch(query), parseMonth(MonthYearMatch(query)[1]),
                   ParseInt(MonthYearMatch(query)[2]))
  ELSE LastThirtyDays(now)

\* parseDateRequest(query), with the clock it reads.
parseDateRequest(query, now) == DateRequestOf(DatePatternOf(query), query, now)

---------------------------------------------------------------------------
(* DynamicAnalysisEngine: campaign search and query building *)

\* The campaign name patterns of findCampaignPatterns, in the order of the
\* object's keys.
CampaignPatterns ==
  << [type |-> "holiday",
      lits |-> {"4th of july", "july 4th", "independence", "patriotic", "summer sale",
                "holiday"}],
     [type |-> "seasonal",
      lits |-> {"summer", "winter", "spring", "fall", "autumn", "seasonal"}],
     [type |-> "promotional",
      lits |-> {"sale", "discount", "promo", "deal", "offer", "special"}],
     [type |-> "brand",
      lits |-> {"brand", "branding", "awareness"}],
     [type |-> "conversion",
      lits |-> {"conversion", "purchase", "buy", "shop"}] >>

\* String.prototype.split(/\s+/)
RECURSIVE SplitWords(_)
SplitWords(s) ==
  LET e == RunEnd(s, 1, {CharAt(s, t) : t \in 1..Len(s)} \ SpaceChars)
  IN  IF e > Len(s) THEN <<s>>
      ELSE <<SubSeq(s, 1, e - 1)>>
           \o SplitWords(SubSeq(s, RunEnd(s, e, SpaceChars), Len(s)))

calculateRelevance(query, campaignName) ==
  LET queryWords == SplitWords(toLowerCase(query))
      nameWords  == SplitWords(toLowerCase(campaignName))
      matches    == Cardinality({i \in DOMAIN queryWords :
                       \E j \in DOMAIN nameWords :
                          \/ Includes(nameWords[j], queryWords[i])
                          \/ Includes(queryWords[i], nameWords[j])})
  IN  Mul(Div(Int2Num(matches), Int2Num(Len(queryWords))), Int2Num(100))

\* The matches of one campaign when only its name is tested.
RECURSIVE MatchesOfCampaign_NameOnly(_, _, _)
MatchesOfCampaign_NameOnly(query, campaign, p) ==
  IF p > Len(CampaignPatterns) THEN <<>>
  ELSE LET name == toLowerCase(campaign.name)
       IN  (IF TestAny(name, CampaignPatterns[p].lits)
            THEN << [campaign       |-> campaign,
                     matchType      |-> CampaignPatterns[p].type,
                     relevanceScore |-> calculateRelevance(query, name)] >>
            ELSE <<>>)
           \o MatchesOfCampaign_NameOnly(query, campaign, p + 1)

\* The matches of one campaign, one per pattern that both the query and the
\* campaign's name satisfy.
RECURSIVE MatchesOfCampaign(_, _, _)
MatchesOfCampaign(query, campaign, p) ==
  IF p > Len(CampaignPatterns) THEN <<>>
  ELSE LET name == toLowerCase(campaign.name)
           hit  == TestAny(query, CampaignPatterns[p].lits)
                   /\ TestAny(name, CampaignPatterns[p].lits)
       IN  (IF hit
            THEN << [campaign       |-> campaign,
                     matchType      |-> CampaignPatterns[p].type,
                     relevanceScore |-> calculateRelevance(query, name)] >>
            ELSE <<>>)
           \o MatchesOfCampaign(query, campaign, p + 1)

RECURSIVE MatchesOfCampaigns(_, _)
MatchesOfCampaigns(query, campaigns) ==
  IF campaigns = <<>> THEN <<>>
  ELSE MatchesOfCampaign(query, Head(campaigns), 1)
       \o MatchesOfCampaigns(query, Tail(campaigns))

\* An insertion that puts a match before the matches of equal score.
RECURSIVE InsertByScore_Unstable(_, _)
InsertByScore_Unstable(sorted, x) ==
  IF sorted = <<>> THEN <<x>>
  ELSE IF ~Lt(x.relevanceScore, Head(sorted).relevanceScore) THEN <<x>> \o sorted
  ELSE <<Head(sorted)>> \o InsertByScore_Unstable(Tail(sorted), x)

\* Array.prototype.sort((a, b) => b.relevanceScore - a.relevanceScore): a
\* stable sort by descending score.
RECURSIVE InsertByScore(_, _)
InsertByScore(sorted, x) ==
  IF sorted = <<>> THEN <<x>>
  ELSE IF Gt(x.relevanceScore, Head(sorted).relevanceScore) THEN <<x>> \o sorted
  ELSE <<Head(sorted)>> \o InsertByScore(Tail(sorted), x)

RECURSIVE SortByScore(_)
SortByScore(matches) ==
  IF matches = <<>> THEN <<>>
  ELSE InsertByScore(SortByScore(SubSeq(matches, 1, Len(matches) - 1)),
                     matches[Len(matches)])

findCampaignPatterns(query, campaigns) == SortByScore(MatchesOfCampaigns(query, campaigns))

\* The keys of QUERY_TEMPLATES; each holds a function of a date range.
TemplateKeys ==
  {"accountOverview", "campaignIntelligence", "impressionShareIntelligence",
   "shoppingIntelligence", "performanceMaxIntelligence",
   "customerLifetimeValueIntelligence", "searchTermsIntelligence",
   "keywordIntelligence", "qualityScoreIntelligence", "adIntelligence",
   "deviceTimeIntelligence"}

\* What a call returns or throws.
Returned(value) == [threw |-> FALSE, value |-> value]
Thrown(message) == [threw |-> TRUE, message |-> message]

\* The text QUERY_TEMPLATES.campaignIntelligence() produces, by its parts:
\* the date condition (DURING LAST_30_DAYS until replaced) and the campaign
\* name condition (none until added).
TemplateText ==
  [kind |-> "text", template |-> "campaignIntelligence",
   dates |-> <<"DURING", "LAST_30_DAYS">>, nameContains |-> Null]

\* A template function that was not called.
TemplateFunction(key) ==
  [kind |-> "function", template |-> key,
   dates |-> <<"DURING", "LAST_30_DAYS">>, nameContains |-> Null]

\* buildDynamicQuery(analysisType, dateRange, campaignFilter): the template
\* found under the key is the function itself, which has no `replace`.
buildDynamicQuery(analysisType, dateRange, campaignFilter) ==
  LET baseQuery == IF analysisType \in TemplateKeys THEN TemplateFunction(analysisType)
                   ELSE TemplateText
      replaces  == (Truthy(dateRange.start) /\ Truthy(dateRange.end)) \/ Truthy(campaignFilter)
      dated     == IF Truthy(dateRange.start) /\ Truthy(dateRange.end)
                   THEN [baseQuery EXCEPT !.dates = <<"BETWEEN", dateRange.start, dateRange.end>>]
                   ELSE baseQuery
      filtered  == IF Truthy(campaignFilter)
                   THEN [dated EXCEPT !.nameContains = campaignFilter]
                   ELSE dated
  IN  IF baseQuery.kind = "function" /\ replaces
      THEN Thrown("baseQuery.replace is not a function")
      ELSE Returned(filtered)

---------------------------------------------------------------------------
(* Server: reading a natural-language query *)

\* The intent patterns with the seasonal cues tried first.
IntentPatterns_SeasonalFirst ==
  << [intent |-> "seasonal",
      lits   |-> {"seasonal", "summer", "winter", "spring", "fall", "autumn", "holiday"}],
     [intent |-> "comparison",
      lits   |-> {"vs", "versus", "compare", "compared to", "against"}],
     [intent |-> "campaign_search",
      lits   |-> {"campaign with", "campaigns with", "find campaigns",
                  "campaigns containing", "campaigns like"}],
     [intent |-> "trend",
      lits   |-> {"trend", "over time", "pattern", "growth"}] >>

\* The intent patterns of detectQueryIntent, in the order they are tried.
IntentPatterns ==
  << [intent |-> "comparison",
      lits   |-> {"vs", "versus", "compare", "compared to", "against"}],
     [intent |-> "seasonal",
      lits   |-> {"seasonal", "summer", "winter", "spring", "fall", "autumn", "holiday"}],
     [intent |-> "campaign_search",
      lits   |-> {"campaign with", "campaigns with", "find campaigns",
                  "campaigns containing", "campaigns like"}],
     [intent |-> "trend",
      lits   |-> {"trend", "over time", "pattern", "growth"}] >>

\* detectQueryIntent without its final return: undefined when nothing matches.
detectQueryIntent_NoFallback(query) ==
  IF \E i \in DOMAIN IntentPatterns : TestAny(query, IntentPatterns[i].lits)
  THEN IntentPatterns[CHOOSE i \in DOMAIN IntentPatterns :
                        /\ TestAny(query, IntentPatterns[i].lits)
                        /\ \A j \in 1..(i - 1) : ~TestAny(query, IntentPatterns[j].lits)].intent
  ELSE Null

detectQueryIntent(query) ==
  IF \E i \in DOMAIN IntentPatterns : TestAny(query, IntentPatterns[i].lits)
  THEN IntentPatterns[CHOOSE i \in DOMAIN IntentPatterns :
                        /\ TestAny(query, IntentPatterns[i].lits)
                        /\ \A j \in 1..(i - 1) : ~TestAny(query, IntentPatterns[j].lits)].intent
  ELSE "single_period"

detectAnalysisType(query) ==
  IF TestAny(query, {"keyword", "search term"}) THEN "keyword"
  ELSE IF TestAny(query, {"ad copy", "ads", "creative"}) THEN "ad"
  ELSE IF TestAny(query, {"shopping", "product"}) THEN "shopping"
  ELSE IF TestAny(query, {"impression share", "market share"}) THEN "impressionShare"
  ELSE "campaign"

Quote == "\""

\* query.match(/"([^"]+)"/g) without the quotes: the quoted parts, left to
\* right, from position i on.
RECURSIVE QuotedFrom(_, _)
QuotedFrom(s, i) ==
  IF i > Len(s) THEN <<>>
  ELSE IF CharAt(s, i) # Quote THEN QuotedFrom(s, i + 1)
  ELSE LET e == RunEnd(s, i + 1, {CharAt(s, t) : t \in 1..Len(s)} \ {Quote})
       IN  IF e > i + 1 /\ e <= Len(s)
           THEN <<SubSeq(s, i + 1, e - 1)>> \o QuotedFrom(s, e + 1)
           ELSE QuotedFrom(s, i + 1)

\* /campaigns? (?:with|containing|including) (\w+)/i from position i: the
\* positions where the captured word may start.
FilterWordAt(l, i) ==
  LET a == Lit(l, Opt(l, Lit(l, {i}, "campaign"), "s"), " ")
      b == Lit(l, AnyLit(l, a, {"with", "containing", "including"}), " ")
  IN  {p \in b : Plus(l, {p}, WordChars) # {}}

\* /(\w+) campaigns?/i from position i.
NamedCampaignAt(l, i) == Lit(l, Plus(l, {i}, WordChars), " campaign") # {}

\* The words the two keyword patterns capture (each at its leftmost match).
KeywordCaptures(s) ==
  LET l == toLowerCase(s)
      first(P(_)) == CHOOSE j \in Anywhere(s) : P(j) /\ \A k \in 1..(j - 1) : ~P(k)
      A(j) == FilterWordAt(l, j) # {}
      B(j) == NamedCampaignAt(l, j)
      wordAt(p) == SubSeq(s, p, RunEnd(s, p, WordChars) - 1)
  IN  (IF \E j \in Anywhere(s) : A(j)
       THEN <<wordAt(CHOOSE p \in FilterWordAt(l, first(A)) : TRUE)>> ELSE <<>>)
      \o (IF \E j \in Anywhere(s) : B(j) THEN <<wordAt(first(B))>> ELSE <<>>)

\* A Set that keeps the last occurrence of each element.
RECURSIVE Unique_LastKept(_)
Unique_LastKept(seq) ==
  IF seq = <<>> THEN <<>>
  ELSE IF \E i \in DOMAIN Tail(seq) : Tail(seq)[i] = Head(seq) THEN Unique_LastKept(Tail(seq))
  ELSE <<Head(seq)>> \o Unique_LastKept(Tail(seq))

\* [...new Set(filters)]: the first occurrence of each element, in order.
RECURSIVE Unique(_)
Unique(seq) ==
  IF seq = <<>> THEN <<>>
  ELSE LET front == Unique(SubSeq(seq, 1, Len(seq) - 1))
           last  == seq[Len(seq)]
       IN  IF \E i \in DOMAIN front : front[i] = last THEN front ELSE Append(front, last)

extractCampaignFilters(query) == Unique(QuotedFrom(query, 1) \o KeywordCaptures(query))

---------------------------------------------------------------------------
(* Server: upstream calls *)

\* What executeGAQLQuery resolves to; it never rejects.
QuerySuccess(data) == [success |-> TRUE, data |-> data]
QueryFailure(message) == [success |-> FALSE, error |-> message]

\* A call of executeGAQLQuery: the query it sent, and its result once
\* customer.query has settled; `settled` is 0 while the call is pending and
\* otherwise tells how many calls of the request had settled by then.
NoResult == <<>>
PendingCall(query) == [query |-> query, settled |-> 0, result |-> NoResult]

AllSettled(calls) == \A i \in DOMAIN calls : calls[i].settled > 0

\* The results as the handler sees them after the await: a single awaited
\* call, or the array Promise.all resolves to, which follows the order of
\* the promises given and not the order in which they settled.
PromiseAll_InSettlingOrder(calls) ==
  [k \in DOMAIN calls |-> calls[CHOOSE i \in DOMAIN calls : calls[i].settled = k].result]

PromiseAll(calls) == [i \in DOMAIN calls |-> calls[i].result]

\* !result1.success || !result2.success
AnyFailed_OnlyBoth(results) == \A i \in DOMAIN results : ~results[i].success

AnyFailed(results) == \E i \in DOMAIN results : ~results[i].success

\* result.data is undefined on a failed result.
HasData(result) == "data" \in DOMAIN result

ReduceOfUndefined == "Cannot read properties of undefined (reading 'reduce')"

---------------------------------------------------------------------------
(* Server: the execute* operations of a natural-language query *)

\* An operation runs to its await, where it either has thrown or has sent
\* its upstream calls and is suspended with its local variables.
Suspended(fn, queries, locals) ==
  [threw |-> FALSE, fn |-> fn, locals |-> locals,
   calls |-> [i \in DOMAIN queries |-> PendingCall(queries[i])]]

\* campaignFilters[0]
FirstFilter(campaignFilters) ==
  IF campaignFilters = <<>> THEN Null ELSE campaignFilters[1]

\* executeComparison up to `await Promise.all`.
executeComparison(period1, period2, analysisType, campaignFilters) ==
  LET query1 == buildDynamicQuery(analysisType \o "Intelligence", period1,
                                  FirstFilter(campaignFilters))
      query2 == buildDynamicQuery(analysisType \o "Intelligence", period2,
                                  FirstFilter(campaignFilters))
  IN  IF query1.threw THEN Thrown("Comparison failed: " \o query1.message)
      ELSE IF query2.threw THEN Thrown("Comparison failed: " \o query2.message)
      ELSE Suspended("executeComparison", <<query1.value, query2.value>>,
                     [period1Label |-> period1.label, period2Label |-> period2.label])

\* executeComparison after the await: the value it returns or the error it
\* throws, and the engine operations it invoked.
executeComparisonResumed(results, locals) ==
  IF AnyFailed(results)
  THEN [outcome |-> Thrown("Comparison failed: Failed to fetch comparison data"),
        invoked |-> <<>>]
  ELSE IF \E i \in DOMAIN results : ~HasData(results[i])
  THEN [outcome |-> Thrown("Comparison failed: " \o ReduceOfUndefined),
        invoked |-> <<"comparePerformance">>]
  ELSE [outcome |-> Returned(comparePerformance(results[1].data, results[2].data,
                                                locals.period1Label, locals.period2Label)),
        invoked |-> <<"comparePerformance">>]

\* executeSeasonalAnalysis up to its await.
executeSeasonalAnalysis(dateRanges) ==
  LET query == buildDynamicQuery("campaignIntelligence", dateRanges.primary, Null)
  IN  IF query.threw THEN Thrown("Seasonal analysis failed: " \o query.message)
      ELSE Suspended("executeSeasonalAnalysis", <<query.value>>, <<>>)

executeSeasonalAnalysisResumed(results, locals, nowMonth, tzBehind) ==
  IF ~results[1].success
  THEN [outcome |-> Thrown("Seasonal analysis failed: Failed to fetch seasonal data"),
        invoked |-> <<>>]
  ELSE [outcome |-> Returned(detectSeasonalPatterns(results[1].data, nowMonth, tzBehind)),
        invoked |-> <<"detectSeasonalPatterns">>]

\* Array.prototype.join(' ')
RECURSIVE JoinWords(_)
JoinWords(words) ==
  IF words = <<>> THEN ""
  ELSE IF Len(words) = 1 THEN words[1]
  ELSE words[1] \o " " \o JoinWords(Tail(words))

\* The sum the reducer of generateCampaignSearchInsights builds.
RECURSIVE SumOfRoas(_)
SumOfRoas(matches) ==
  IF matches = <<>> THEN Zero
  ELSE LET m       == matches[Len(matches)].campaign.metrics
           revenue == OrZero(m.conversions_value)
           spend   == DivByInt(OrZero(m.cost_micros), 1000000)
       IN  Add(SumOfRoas(SubSeq(matches, 1, Len(matches) - 1)),
               IF Gt(spend, Zero) THEN Div(revenue, spend) ELSE Zero)

generateCampaignSearchInsights(matches, searchTerms) ==
  IF Len(matches) = 0
  THEN << [about |-> "No campaigns found matching", searchTerms |-> searchTerms] >>
  ELSE LET avgROAS == Div(SumOfRoas(matches), Int2Num(Len(matches)))
       IN  << [about |-> "Found campaigns with average ROAS of",
               count |-> Len(matches), avgROAS |-> ToFixed(avgROAS, 2)] >>
           \o (IF Gt(avgROAS, Int2Num(3))
               THEN << [about |-> "These campaigns show strong ROAS"] >> ELSE <<>>)

\* executeCampaignSearch up to its await.
executeCampaignSearch(campaignFilters, dateRange) ==
  LET query == buildDynamicQuery("campaignIntelligence", dateRange, Null)
  IN  IF query.threw THEN Thrown("Campaign search failed: " \o query.message)
      ELSE Suspended("executeCampaignSearch", <<query.value>>,
                     [campaignFilters |-> campaignFilters])

executeCampaignSearchResumed(results, locals) ==
  IF ~results[1].success
  THEN [outcome |-> Thrown("Campaign search failed: Failed to search campaigns"),
        invoked |-> <<>>]
  ELSE LET searchTerm == JoinWords(locals.campaignFilters)
           matches    == findCampaignPatterns(searchTerm, results[1].data)
       IN  [outcome |-> Returned([matches             |-> matches,
                                  totalCampaignsFound |-> Len(matches),
                                  insights |-> generateCampaignSearchInsights(matches, searchTerm)]),
            invoked |-> <<"findCampaignPatterns">>]

\* executeSinglePeriodAnalysis up to its await.
executeSinglePeriodAnalysis(dateRange, analysisType) ==
  LET query == buildDynamicQuery(analysisType \o "Intelligence", dateRange, Null)
  IN  IF query.threw THEN Thrown("Single period analysis failed: " \o query.message)
      ELSE Suspended("executeSinglePeriodAnalysis", <<query.value>>,
                     [label |-> dateRange.label])

executeSinglePeriodAnalysisResumed(results, locals) ==
  IF ~results[1].success
  THEN [outcome |-> Thrown("Single period analysis failed: Failed to analyze period"),
        invoked |-> <<>>]
  ELSE [outcome |-> Returned([period    |-> locals.label,
                              metrics   |-> calculatePeriodMetrics(results[1].data, locals.label),
                              campaigns |-> Len(results[1].data)]),
        invoked |-> <<"calculatePeriodMetrics">>]

---------------------------------------------------------------------------
(* Server: responses of a natural-language query *)

\* The findings formatComparisonResponse reports, by their conditions (the
\* wording around the figures is not modelled).
KeyFindingsOf(comparisonData) ==
  LET changes == comparisonData.changes
      dir(m)  == IF m \in DOMAIN changes THEN changes[m].direction ELSE "none"
      roas1   == ParseFloat(comparisonData.period1.roas)
      roas2   == ParseFloat(comparisonData.period2.roas)
  IN  (IF dir("conversions") = "increase"
       THEN << [about  |-> "Conversions increased by",
                by     |-> changes.conversions.percentage,
                from   |-> comparisonData.period2.conversions,
                to     |-> comparisonData.period1.conversions] >>
       ELSE IF dir("conversions") = "decrease"
       THEN << [about  |-> "Conversions dropped by",
                by     |-> MathAbs(ParseFloat(changes.conversions.percentage)),
                from   |-> comparisonData.period2.conversions,
                to     |-> comparisonData.period1.conversions] >>
       ELSE <<>>)
      \o (IF dir("spend") = "decrease" /\ dir("conversions") = "increase"
          THEN << [about |-> "Spent less but got more conversions",
                   by    |-> MathAbs(ParseFloat(changes.spend.percentage))] >>
          ELSE <<>>)
      \o (IF Gt(roas1, roas2)
          THEN << [about |-> "ROAS improved by",
                   by    |-> ToFixed(Sub(roas1, roas2), 2),
                   from  |-> comparisonData.period2.roas,
                   to    |-> comparisonData.period1.roas] >>
          ELSE <<>>)

RecommendationsOf(comparisonData) ==
  LET changes == comparisonData.changes
  IN  (IF "conversions" \in DOMAIN changes /\ changes.conversions.direction = "decrease"
       THEN <<"Investigate what changed between periods">> ELSE <<>>)
      \o (IF "spend" \in DOMAIN changes
             /\ Gt(ParseFloat(changes.spend.percentage), Int2Num(20))
          THEN <<"Significant spend difference detected">> ELSE <<>>)

formatComparisonResponse(comparisonData) ==
  [summary         |-> "Comparing " \o comparisonData.period1.label
                         \o " vs " \o comparisonData.period2.label,
   keyFindings     |-> KeyFindingsOf(comparisonData),
   recommendations |-> RecommendationsOf(comparisonData),
   data            |-> [period1 |-> comparisonData.period1,
                        period2 |-> comparisonData.period2,
                        changes |-> comparisonData.changes]]

formatSeasonalResponse(seasonalData) ==
  [summary  |-> "Seasonal performance patterns identified",
   patterns |-> seasonalData.seasonal,
   insights |-> <<"Seasonal trends can help optimize budget allocation",
                  "Consider ramping up successful seasonal campaigns earlier",
                  "Monitor competitor activity during peak seasons">>,
   data     |-> seasonalData]

formatSearchResponse(searchData) ==
  [summary   |-> "Found " \o IntToString(searchData.totalCampaignsFound)
                   \o " campaigns matching your search",
   topMatches |-> SubSeq(searchData.matches, 1, Min(5, Len(searchData.matches))),
   insights   |-> searchData.insights,
   recommendations |->
     IF searchData.totalCampaignsFound > 0
     THEN <<"Review top-performing matches for successful patterns",
            "Consider scaling campaigns with high ROAS",
            "Test similar messaging in new campaigns">>
     ELSE <<"No exact matches found - try broader search terms",
            "Consider creating campaigns for this theme if it's important",
            "Check historical data for similar campaign patterns">>]

\* v || fallback for a number v.
NumOr(v, fallback) == IF (IsFinite(v) /\ v.m # 0) \/ v.k = "inf" THEN v ELSE fallback

formatSinglePeriodResponse(data) ==
  LET metrics == data.metrics
  IN  [summary     |-> "Analysis for "
                         \o (IF Truthy(data.period) THEN data.period ELSE "specified period"),
       performance |-> [totalSpend  |-> metrics.spend,
                        conversions |-> NumOr(metrics.conversions, Zero),
                        roas        |-> metrics.roas,
                        campaigns   |-> metrics.campaigns],
       insights    |-> << IF Gt(ParseFloat(metrics.roas), Int2Num(3))
                          THEN "Strong ROAS performance" ELSE "ROAS could be improved",
                          IF Gt(metrics.conversions, Int2Num(100))
                          THEN "Good conversion volume"
                          ELSE "Consider scaling successful campaigns" >>]

\* The response analyzeNaturalLanguageQuery builds in its catch block.
CouldNotAnalyze(query, message) ==
  [message    |-> "I couldn't fully analyze \"" \o query \o "\" due to: " \o message,
   suggestion |-> "Try asking about campaign performance, date comparisons, or seasonal trends."]

\* The response analysis starts with, {}.
EmptyResponse == <<>>

\* analysis.response for what an execute* operation returned or threw.
FormatOutcome(fn, outcome, query) ==
  IF outcome.threw THEN CouldNotAnalyze(query, outcome.message)
  ELSE IF fn = "executeComparison" THEN formatComparisonResponse(outcome.value)
  ELSE IF fn = "executeSeasonalAnalysis" THEN formatSeasonalResponse(outcome.value)
  ELSE IF fn = "executeCampaignSearch" THEN formatSearchResponse(outcome.value)
  ELSE formatSinglePeriodResponse(outcome.value)

\* The first four fields of the analysis of a query.
Analysis(query, now) ==
  [intent          |-> detectQueryIntent(query),
   dateRanges      |-> parseDateRequest(query, now),
   campaignFilters |-> extractCampaignFilters(query),
   analysisType    |-> detectAnalysisType(query)]

\* analyzeNaturalLanguageQuery up to the await of the operation its switch
\* selects; "none" when no operation is selected.
SelectedOperation(analysis) ==
  IF analysis.intent = "comparison"
  THEN (IF analysis.dateRanges.type = "comparison" THEN "executeComparison" ELSE "none")
  ELSE IF analysis.intent = "seasonal" THEN "executeSeasonalAnalysis"
  ELSE IF analysis.intent = "campaign_search" THEN "executeCampaignSearch"
  ELSE "executeSinglePeriodAnalysis"

StartOperation(fn, analysis) ==
  IF fn = "executeComparison"
  THEN executeComparison(analysis.dateRanges.primary, analysis.dateRanges.comparison,
                         analysis.analysisType, analysis.campaignFilters)
  ELSE IF fn = "executeSeasonalAnalysis" THEN executeSeasonalAnalysis(analysis.dateRanges)
  ELSE IF fn = "executeCampaignSearch"
  THEN executeCampaignSearch(analysis.campaignFilters, analysis.dateRanges.primary)
  ELSE executeSinglePeriodAnalysis(analysis.dateRanges.primary, analysis.analysisType)

\* The body res.json sends for a natural-language query.
FlexibleQueryBody(accountId, query, analysis, response) ==
  [success       |-> TRUE,
   accountId     |-> accountId,
   originalQuery |-> query,
   queryAnalysis |-> [intent          |-> analysis.intent,
                      dateRanges      |-> analysis.dateRanges,
                      campaignFilters |-> analysis.campaignFilters,
                      analysisType    |-> analysis.analysisType,
                      response        |-> response]]

\* What reaches the one who asked: an HTTP response to the client of an
\* endpoint, or the value returned (error thrown) to the caller of an
\* execute* operation; nothing yet while the request is being handled.
Http(status, body) == [to |-> "client", status |-> status, body |-> body]
ToCaller(outcome) == [to |-> "caller", outcome |-> outcome]
NoResponse == [to |-> "nobody"]

\* result.error of a result (undefined on a successful one).
ErrorOf(result) == IF result.success THEN Null ELSE result.error

\* The compare-periods endpoint after `await Promise.all`: the response it
\* sends and the engine operations it invoked.
comparePeriodsResumed(results, locals, accountId, nowMonth, tzBehind) ==
  IF AnyFailed(results)
  THEN [response |-> Http(500, [success |-> FALSE,
                                error   |-> "One or more queries failed",
                                details |-> [period1Error |-> ErrorOf(results[1]),
                                             period2Error |-> ErrorOf(results[2])]]),
        invoked  |-> <<>>]
  ELSE IF \E i \in DOMAIN results : ~HasData(results[i])
  THEN [response |-> Http(500, [success |-> FALSE, error |-> ReduceOfUndefined]),
        invoked  |-> <<"comparePerformance">>]
  ELSE LET comparison == comparePerformance(results[1].data, results[2].data,
                                            locals.period1Label, locals.period2Label)
       IN  IF locals.query1.kind = "function"
           THEN [response |-> Http(500, [success |-> FALSE,
                                         error   |-> "query1.includes is not a function"]),
                 invoked  |-> <<"comparePerformance">>]
           ELSE IF Len(results[1].data) > 0
           THEN [response |->
                   Http(200, [success    |-> TRUE,
                              accountId  |-> accountId,
                              comparison |->
                                comparison @@
                                [seasonalPatterns |->
                                   detectSeasonalPatterns(results[1].data \o results[2].data,
                                                          nowMonth, tzBehind)]]),
                 invoked  |-> <<"comparePerformance", "detectSeasonalPatterns">>]
           ELSE [response |-> Http(200, [success    |-> TRUE,
                                         accountId  |-> accountId,
                                         comparison |-> comparison]),
                 invoked  |-> <<"comparePerformance">>]

---------------------------------------------------------------------------
(* SimpleAIMemory (ai-memory.js): the log of recommendations and of their  *)
(* outcomes.  An array is a sequence; the objects patterns and failures     *)
(* are sequences of keyed entries in the order their keys were created; a   *)
(* property an object does not have yet is the empty sequence.              *)
(* getInsights and the helpers only it calls are not modelled.              *)

\* this.memory as the constructor leaves it.
EmptyMemory ==
  [recommendations |-> <<>>, outcomes |-> <<>>, patterns |-> <<>>, failures |-> <<>>]

NoOutcome == <<>>

\* The least member of a non-empty set of indexes, 0 for the empty set.
FirstOf(S) == IF S = {} THEN 0 ELSE CHOOSE i \in S : \A j \in S : i <= j

\* `${accountId}_${Date.now()}`
RecommendationId(accountId, now) == accountId \o "_" \o IntToString(now)

\* The record storeRecommendation pushes; the timestamp is the reading of
\* the clock the ISO text is made from.
RecommendationRecord(accountId, recommendation, now) ==
  [id             |-> RecommendationId(accountId, now),
   accountId      |-> accountId,
   timestamp      |-> now,
   recommendation |-> recommendation,
   status         |-> "pending",
   outcome        |-> NoOutcome]

\* expectedImpact.replace(/[^0-9.-]/g, '')
RECURSIVE StripNonNumeric(_)
StripNonNumeric(s) ==
  IF s = "" THEN ""
  ELSE (IF CharAt(s, 1) \in DigitChars \cup {".", "-"} THEN CharAt(s, 1) ELSE "")
       \o StripNonNumeric(SubSeq(s, 2, Len(s)))

\* parseFloat of the stripped text; the impacts tried are whole numbers.
ExpectedImprovement(recommendation) ==
  Int2Num(ParseInt(StripNonNumeric(recommendation.expectedImpact)))

\* The truth value of a number: neither 0, NaN nor undefined.
NumberTruthy(x) == x.k = "inf" \/ (x.k = "fin" /\ x.m # 0)

\* recommendation.expectedImpact && actualResults.actualImpact
HasImpacts(recommendation, actualResults) ==
  Truthy(recommendation.expectedImpact) /\ NumberTruthy(actualResults.actualImpact)

\* x >= y
GtEq(x, y) == Gt(x, y) \/ (x.k \in {"fin", "inf"} /\ x = y)

calculateSuccess(recommendation, actualResults) ==
  IF HasImpacts(recommendation, actualResults)
  THEN GtEq(actualResults.actualImpact,
            Mul(ExpectedImprovement(recommendation), Dec2Num(7, 1)))
  ELSE actualResults.improved = TRUE

\* Math.max(0, Math.min(1, accuracy))
ClampUnit(x) ==
  IF x.k = "nan" THEN NaN
  ELSE IF Lt(x, Zero) THEN Zero
  ELSE IF Gt(x, Int2Num(1)) THEN Int2Num(1)
  ELSE x

AccuracyOf(expected, actual) ==
  IF expected = Zero THEN (IF actual = Zero THEN Int2Num(1) ELSE Zero)
  ELSE ClampUnit(Sub(Int2Num(1),
                     Div(MathAbs(Sub(expected, actual)), MathAbs(expected))))

calculateAccuracy(recommendation, actualResults) ==
  IF HasImpacts(recommendation, actualResults)
  THEN AccuracyOf(ExpectedImprovement(recommendation), actualResults.actualImpact)
  ELSE IF actualResults.improved = TRUE THEN Int2Num(1) ELSE Zero

\* recommendations.find(r => r.id === recommendationId): the index of the
\* first record with that id, 0 when there is none.
FindRecommendation_OrFirst(recommendations, recommendationId) ==
  IF \E i \in DOMAIN recommendations : recommendations[i].id = recommendationId
  THEN FirstOf({i \in DOMAIN recommendations :
                  recommendations[i].id = recommendationId})
  ELSE Min(1, Len(recommendations))

FindRecommendation(recommendations, recommendationId) ==
  FirstOf({i \in DOMAIN recommendations :
             recommendations[i].id = recommendationId})

\* The outcome object storeOutcome builds.
OutcomeRecord(recommendationId, record, actualResults, now) ==
  [recommendationId |-> recommendationId,
   timestamp        |-> now,
   actualResults    |-> actualResults,
   wasSuccessful    |-> calculateSuccess(record.recommendation, actualResults),
   accuracyScore    |-> calculateAccuracy(record.recommendation, actualResults)]

\* `${recommendation.recommendation.type}_${recommendation.accountId}`
PatternKey(type, accountId) == type \o "_" \o accountId

KeyIndex(entries, key) == FirstOf({i \in DOMAIN entries : entries[i].key = key})

NewPattern(key, record) ==
  [key          |-> key,
   type         |-> record.recommendation.type,
   accountId    |-> record.accountId,
   successCount |-> 0,
   failureCount |-> 0,
   confidence   |-> Dec2Num(5, 1),
   bestPractices |-> <<>>]

\* if (!this.memory.patterns[patternKey]) this.memory.patterns[patternKey] = {...}
EnsurePattern(patterns, key, record) ==
  IF KeyIndex(patterns, key) = 0 THEN Append(patterns, NewPattern(key, record))
  ELSE patterns

\* successCount++ with the action as a best practice, or failureCount++.
CountOutcome(pattern, record, outcome) ==
  IF outcome.wasSuccessful
  THEN [pattern EXCEPT !.successCount = @ + 1,
                       !.bestPractices = Append(@, record.recommendation.action)]
  ELSE [pattern EXCEPT !.failureCount = @ + 1]

\* confidence = totalAttempts > 0 ? successCount / totalAttempts : 0.5
ConfidenceOf(successCount, failureCount) ==
  IF successCount + failureCount > 0
  THEN Div(Int2Num(successCount), Int2Num(successCount + failureCount))
  ELSE Dec2Num(5, 1)

WithConfidence(pattern) ==
  [pattern EXCEPT !.confidence = ConfidenceOf(pattern.successCount, pattern.failureCount)]

UpdatedPatterns(patterns, key, record, outcome) ==
  [patterns EXCEPT ![KeyIndex(patterns, key)] =
     WithConfidence(CountOutcome(@, record, outcome))]

\* outcome.actualResults.reason || 'Unknown'
FailureEntry(record, outcome) ==
  [action    |-> record.recommendation.action,
   reason    |-> IF Truthy(outcome.actualResults.reason)
                 THEN outcome.actualResults.reason ELSE "Unknown",
   timestamp |-> outcome.timestamp]

EnsureFailures(failures, key) ==
  IF KeyIndex(failures, key) = 0 THEN Append(failures, [key |-> key, entries |-> <<>>])
  ELSE failures

PushFailure(failures, key, entry) ==
  [failures EXCEPT ![KeyIndex(failures, key)].entries = Append(@, entry)]

UpdatedFailures(failures, key, record, outcome) ==
  IF outcome.wasSuccessful THEN failures
  ELSE PushFailure(EnsureFailures(failures, key), key, FailureEntry(record, outcome))

updatePatterns(memory, key, record, outcome) ==
  [memory EXCEPT
     !.patterns = UpdatedPatterns(EnsurePattern(@, key, record), key, record, outcome),
     !.failures = UpdatedFailures(@, key, record, outcome)]

\* recommendation.status = 'completed'; recommendation.outcome = wasSuccessful
Completed(record, wasSuccessful) ==
  [record EXCEPT !.status = "completed", !.outcome = <<wasSuccessful>>]

\* this.memory after storeOutcome has found the record at `index`: the
\* outcome is pushed, the patterns learn from it, the record is completed.
OutcomeStored(memory, index, outcome) ==
  [updatePatterns([memory EXCEPT !.outcomes = Append(@, outcome)],
                  PatternKey(memory.recommendations[index].recommendation.type,
                             memory.recommendations[index].accountId),
                  memory.recommendations[index], outcome)
     EXCEPT !.recommendations[index] = Completed(@, outcome.wasSuccessful)]

\* JSON.stringify(this.memory, null, 2) and JSON.parse of that text: every
\* value in the memory is a string, a boolean, a finite number, an array or
\* a plain object, which the text gives back as it was.
Stringify(memory) == [json |-> memory]
JSONParse(text) == text.json

---------------------------------------------------------------------------
(* The engine as a state machine: the rows of two periods arrive from       *)
(* upstream, and one of the engine's operations is applied to them.         *)

VARIABLES
  period1Data,   \* rows of the first period
  period2Data,   \* rows of the second (baseline) period
  period1Label,
  period2Label,
  clockMonth,    \* month index (0..11) of Date.now() in the server's time zone
  tzBehind,      \* whether the server's time zone is behind UTC
  method,        \* the operation that the caller invokes
  queryText,     \* the free-text query the caller passes
  engineCall,    \* the operation applied and what it returned
  earlierCall    \* the call made on the engine before that one, if any

engineVars ==
  <<period1Data, period2Data, period1Label, period2Label, clockMonth, tzBehind,
    method, queryText, engineCall, earlierCall>>

VARIABLES
  request,       \* the request being handled and how it entered the server
  pc,            \* "idle", "awaiting" (suspended at an await) or "done"
  frame,         \* the suspended operation and its local variables
  calls,         \* the upstream calls issued for the request
  invoked,       \* the engine operations invoked after the await
  response,      \* what was delivered to the one who asked
  clock          \* the clock parseDateRequest reads

serverVars == <<request, pc, frame, calls, invoked, response, clock>>

NoRequest == [entry |-> "none"]
NoFrame == [fn |-> "none"]

\* The server before a request arrives.
ServerIdle ==
  /\ request = NoRequest
  /\ pc = "idle"
  /\ frame = NoFrame
  /\ calls = <<>>
  /\ invoked = <<>>
  /\ response = NoResponse

VARIABLES
  memory,       \* this.memory of the SimpleAIMemory instance
  memoryFile,   \* ai-memory.json: <<>> while there is no file, else <<its text>>
  loading,      \* how far the loadMemory the constructor started has come
  writes,       \* the fs.writeFile operations that have not completed yet
  returned,     \* the ids storeRecommendation has returned, in order
  nowMs,        \* Date.now()
  memoryCall    \* the latest call of storeRecommendation or storeOutcome

memoryVars == <<memory, memoryFile, loading, writes, returned, nowMs, memoryCall>>

NoMemoryCall == [n |-> 0, method |-> "none", id |-> "", index |-> 0]
Loaded == [stage |-> "done", data |-> <<>>]

\* No memory is in use.
MemoryIdle ==
  /\ memory = EmptyMemory
  /\ memoryFile = <<>>
  /\ loading = Loaded
  /\ writes = <<>>
  /\ returned = <<>>
  /\ nowMs = 0
  /\ memoryCall = NoMemoryCall

vars == <<engineVars, serverVars, memoryVars>>

\* Rows as the upstream client can return them: measures may be missing, costs
\* may be below a cent, conversions and conversion values are fractional.
RowList ==
  << Row("", NoMetrics, NoDate, NoDate),
     Row("Brand Awareness", MetricsOf(Zero, Zero, Zero, Zero, Zero),
         <<2024, 12, 15>>, NoDate),
     Row("Summer Sale Blowout",
         MetricsOf(Int2Num(4000), Dec2Num(1, 1), Int2Num(4), Dec2Num(1, 3), Int2Num(100)),
         <<2024, 3, 1>>, NoDate),
     Row("Winter Clearance",
         MetricsOf(Int2Num(320000), Dec2Num(2, 1), Int2Num(5), Dec2Num(64, 2), Undefined),
         <<2024, 7, 4>>, NoDate),
     Row("Spring Promo",
         MetricsOf(Int2Num(640000), Dec2Num(3, 1), Int2Num(1), Int2Num(2), Int2Num(50)),
         NoDate, <<2024, 9, 30>>),
     Row("Shop Deals",
         MetricsOf(Undefined, Int2Num(1), Int2Num(6), Int2Num(1), Zero),
         NoDate, NoDate) >>

Range(f) == {f[i] : i \in DOMAIN f}

\* The sequences of at most n distinct elements of S.
RECURSIVE DistinctSeqs(_, _)
DistinctSeqs(S, n) ==
  IF n = 0 THEN {<<>>}
  ELSE LET shorter == DistinctSeqs(S, n - 1)
       IN  shorter \cup
           UNION {{Append(q, x) : x \in S \ Range(q)} :
                    q \in {p \in shorter : Len(p) = n - 1}}

RowsAt(ix) == [i \in 1..Len(ix) |-> RowList[ix[i]]]

NoCall == [fn |-> "none"]

EngineMethods == {"comparePerformance", "calculatePeriodMetrics", "detectSeasonalPatterns"}

\* The arguments of one call: only comparePerformance reads a second period,
\* only detectSeasonalPatterns reads the clock and the time zone.
EngineInit ==
  /\ method \in EngineMethods
  /\ \E ix \in DistinctSeqs(1..Len(RowList), MaxRows) : period1Data = RowsAt(ix)
  /\ \E ix \in DistinctSeqs(1..Len(RowList), 1) :
        period2Data = IF method = "comparePerformance" THEN RowsAt(ix) ELSE <<>>
  /\ period1Label = "June 2024"
  /\ period2Label = "June 2023"
  /\ clockMonth \in IF method = "detectSeasonalPatterns" THEN 0..11 ELSE {0}
  /\ queryText = ""
  /\ tzBehind \in IF method = "detectSeasonalPatterns" THEN BOOLEAN ELSE {FALSE}
  /\ engineCall = NoCall
  /\ earlierCall = NoCall
  /\ ServerIdle
  /\ MemoryIdle
  /\ clock = Clock(2026, 11, <<2026, 11, 2>>)

CallComparePerformance ==
  /\ method = "comparePerformance"
  /\ engineCall = NoCall
  /\ engineCall' =
       [fn    |-> "comparePerformance",
        value |-> comparePerformance(period1Data, period2Data, period1Label, period2Label)]
  /\ UNCHANGED <<period1Data, period2Data, period1Label, period2Label, clockMonth, tzBehind,
               method, queryText, earlierCall, serverVars, memoryVars>>

CallCalculatePeriodMetrics ==
  /\ method = "calculatePeriodMetrics"
  /\ engineCall = NoCall
  /\ engineCall' =
       [fn    |-> "calculatePeriodMetrics",
        value |-> calculatePeriodMetrics(period1Data, period1Label)]
  /\ UNCHANGED <<period1Data, period2Data, period1Label, period2Label, clockMonth, tzBehind,
               method, queryText, earlierCall, serverVars, memoryVars>>

CallDetectSeasonalPatterns ==
  /\ method = "detectSeasonalPatterns"
  /\ engineCall = NoCall
  /\ engineCall' =
       [fn    |-> "detectSeasonalPatterns",
        value |-> detectSeasonalPatterns(period1Data, clockMonth, tzBehind)]
  /\ UNCHANGED <<period1Data, period2Data, period1Label, period2Label, clockMonth, tzBehind,
               method, queryText, earlierCall, serverVars, memoryVars>>

EngineNext ==
  \/ CallComparePerformance
  \/ CallCalculatePeriodMetrics
  \/ CallDetectSeasonalPatterns

SpecEngine == EngineInit /\ [][EngineNext]_vars

---------------------------------------------------------------------------
(* Properties of the engine *)

Compared == engineCall.fn = "comparePerformance"
Aggregated == engineCall.fn = "calculatePeriodMetrics"
Seasoned == engineCall.fn = "detectSeasonalPatterns"

ChangeMetricSet == Range(ChangeMetrics)

\* The value a PeriodMetrics field shows is greater than 0: the numeral of a
\* formatted field, the number of a raw one.
ReportedPositive(v) ==
  IF IsStr(v) THEN v.txt = "num" /\ ~v.neg /\ v.n > 0 ELSE Gt(v, Zero)

\* The totals of the second period before they are formatted.
Period2Totals == ReduceTotals(period2Data, ZeroTotals)

\* C1 as stated: `changes` has an entry for metric m if and only if the
\* second period's aggregated total of m is greater than 0, and no other key.
C1_EntryIffTotalPositive ==
  Compared =>
    /\ DOMAIN engineCall.value.changes \subseteq ChangeMetricSet
    /\ \A m \in ChangeMetricSet :
         m \in DOMAIN engineCall.value.changes <=> Gt(Period2Totals[m], Zero)

\* C1 as amended: `changes` has an entry for metric m if and only if the value
\* of m that the second period's PeriodMetrics reports (spend and revenue
\* rounded to two decimals) is greater than 0, and no other key appears.
C1_EntryIffReportedPositive ==
  Compared =>
    /\ DOMAIN engineCall.value.changes \subseteq ChangeMetricSet
    /\ \A m \in ChangeMetricSet :
         m \in DOMAIN engineCall.value.changes
           <=> ReportedPositive(engineCall.value.period2[m])

\* A comparison whose baseline has clicks but a spend below half a cent: an
\* entry for clicks, none for spend.
C1_Witness ==
  /\ Compared
  /\ "clicks" \in DOMAIN engineCall.value.changes
  /\ "spend" \notin DOMAIN engineCall.value.changes
  /\ Gt(Period2Totals.spend, Zero)

\* The numbers the comparison reads from the two PeriodMetrics.
Val1(m) == MetricValue(engineCall.value.period1, m)
Val2(m) == MetricValue(engineCall.value.period2, m)

\* C2: every change entry has direction "increase" exactly when period 1's
\* value is strictly greater than period 2's and "decrease" otherwise; its
\* magnitude is "significant" exactly when the absolute value of the
\* percentage ((v1 - v2) / v2) * 100 is strictly greater than 20 and "modest"
\* otherwise; comparing a row sequence with itself gives "0.0%" and
\* "decrease" for every metric emitted.
C2_DirectionAndMagnitude ==
  Compared =>
    \A m \in DOMAIN engineCall.value.changes :
      LET entry == engineCall.value.changes[m]
      IN  /\ entry.direction = (IF Gt(Val1(m), Val2(m)) THEN "increase" ELSE "decrease")
          /\ entry.magnitude =
               (IF Gt(MathAbs(PercentChange(Val1(m), Val2(m))), Int2Num(20))
                THEN "significant" ELSE "modest")
          /\ period1Data = period2Data =>
               /\ entry.percentage = Numeral(FALSE, 0, 1, TRUE)
               /\ entry.direction = "decrease"

\* Clicks went from 5 to 6: exactly 20 percent more, an increase that is
\* still modest; and the comparison of a non-empty period with itself.
C2_Witness ==
  /\ Compared
  /\ "clicks" \in DOMAIN engineCall.value.changes
  /\ Val1("clicks") = Int2Num(6) /\ Val2("clicks") = Int2Num(5)
  /\ engineCall.value.changes["clicks"].percentage = Numeral(FALSE, 200, 1, TRUE)
  /\ engineCall.value.changes["clicks"].direction = "increase"
  /\ engineCall.value.changes["clicks"].magnitude = "modest"

\* The value of a numeral as the rational n / 10^digits: a < b.
NumeralLess(a, b) ==
  (IF a.neg THEN -a.n ELSE a.n) * Pow10(b.digits)
    < (IF b.neg THEN -b.n ELSE b.n) * Pow10(a.digits)

InsightsAbout(what) ==
  {i \in DOMAIN engineCall.value.insights : engineCall.value.insights[i].about = what}

\* C3: the insights are at most two; a conversions insight is there exactly
\* when changes.conversions exists with direction "increase", a ROAS insight
\* exactly when the ROAS of period 1 is greater than that of period 2, the
\* conversions insight comes first, and nothing else is ever emitted.
C3_Insights ==
  Compared =>
    LET conv == InsightsAbout("Conversions improved by")
        roas == InsightsAbout("ROAS improved by")
        c    == engineCall.value.changes
    IN  /\ Len(engineCall.value.insights) <= 2
        /\ conv \cup roas = DOMAIN engineCall.value.insights
        /\ Cardinality(conv) <= 1 /\ Cardinality(roas) <= 1
        /\ conv # {} <=> ("conversions" \in DOMAIN c /\ c["conversions"].direction = "increase")
        /\ roas # {} <=> NumeralLess(engineCall.value.period2.roas, engineCall.value.period1.roas)
        /\ \A i \in conv : \A j \in roas : i < j

\* Both insights at once, and a comparison with a spend decrease and no insight.
C3_Witness ==
  /\ Compared
  /\ Len(engineCall.value.insights) = 2
  /\ engineCall.value.insights[1].about = "Conversions improved by"
  /\ engineCall.value.insights[2].about = "ROAS improved by"

\* C4: for an empty row sequence calculatePeriodMetrics returns spend 0,
\* conversions 0, roas "0", ctr "0%", conversionRate "0%" and a row count of
\* 0, and no field is NaN.
C4_EmptyInput ==
  (Aggregated /\ period1Data = <<>>) =>
    LET v == engineCall.value
    IN  /\ v.spend.txt = "num" /\ v.spend.n = 0
        /\ v.conversions = Zero
        /\ v.roas = Str0
        /\ v.ctr = Str0Pct
        /\ v.conversionRate = Str0Pct
        /\ v.campaigns = 0
        /\ v.revenue.txt = "num"
        /\ IsFinite(v.clicks) /\ IsFinite(v.impressions)

C4_Witness == Aggregated /\ period1Data = <<>> /\ engineCall.value.roas = Str0

\* The reorderings of a sequence.
PermutationsOf(q) ==
  {[i \in 1..Len(q) |-> q[p[i]]] : p \in Permutations(1..Len(q))}

\* C5: calculatePeriodMetrics returns the same PeriodMetrics, field by field,
\* for every permutation of its rows.
C5_OrderIndependent ==
  Aggregated =>
    \A q \in PermutationsOf(period1Data) :
      calculatePeriodMetrics(q, period1Label) = engineCall.value

\* A total is 0 exactly when every row contributes 0 to it.
AllZero(data, field) ==
  \A i \in 1..Len(data) : OrZero(data[i].metrics[field]) = Zero

RowsOfSeason(season) ==
  {i \in 1..Len(period1Data) :
     getSeason(RowMonth(period1Data[i], clockMonth, tzBehind)) = season}

\* C6: every ratio is zero-guarded: roas is "0" when the summed spend is 0,
\* conversionRate "0%" when the summed clicks are 0, ctr "0%" when the summed
\* impressions are 0, a season's roas "0" when the season's spend is 0; and
\* no ratio is ever NaN or Infinity.
C6_ZeroGuards ==
  /\ Aggregated =>
       LET v == engineCall.value
       IN  /\ AllZero(period1Data, "cost_micros") => v.roas = Str0
           /\ AllZero(period1Data, "clicks") => v.conversionRate = Str0Pct
           /\ AllZero(period1Data, "impressions") => v.ctr = Str0Pct
           /\ v.roas.txt = "num" /\ v.conversionRate.txt = "num" /\ v.ctr.txt = "num"
  /\ Seasoned =>
       \A s \in DOMAIN engineCall.value.seasonal :
         /\ (\A i \in RowsOfSeason(s) :
               OrZero(period1Data[i].metrics.cost_micros) = Zero)
              => engineCall.value.seasonal[s].roas = Str0
         /\ engineCall.value.seasonal[s].roas.txt = "num"

\* Rows with clicks but no impressions at all: ctr is guarded while
\* conversionRate is a real ratio.
C6_Witness ==
  /\ Aggregated
  /\ period1Data # <<>>
  /\ AllZero(period1Data, "impressions") /\ ~AllZero(period1Data, "clicks")
  /\ engineCall.value.ctr = Str0Pct
  /\ engineCall.value.conversionRate # Str0Pct

---------------------------------------------------------------------------
(* The server as a state machine: one request is received, its handler     *)
(* runs to an await with its upstream calls sent, the calls settle in any  *)
(* order, and the handler resumes and answers.                             *)

\* The requests tried.
AccountIds == {"123-456-7890", ""}

Queries ==
  {"", "compare this June vs last year", "same time last year july 4th",
   "brand vs generic", "summer campaigns", "find campaigns with sale",
   "growth trend", "how are keywords doing", "ad copy results", "shopping products",
   "impression share"}

Period1 == Interval("2024-06-01", "2024-06-30", "June 2024")
Period2 == Interval("2023-06-01", "2023-06-30", "June 2023")

\* Periods of a request body that carry a label only.
PeriodPairs ==
  {<<Period1, Period2>>, <<Interval(Null, Null, "June 2024"), Interval(Null, Null, "June 2023")>>}

\* "campaign" is the default of the endpoint; "account" names no template.
AnalysisTypes == {"campaign", "account"}

\* What the upstream client answers.
UpstreamData == {<<>>, <<RowList[3]>>, <<RowList[4], RowList[6]>>}
UpstreamMessages == {"PERMISSION_DENIED: no access", "RESOURCE_EXHAUSTED: quota"}

ServerInit ==
  /\ ServerIdle
  /\ MemoryIdle
  /\ clock = Clock(2026, 11, <<2026, 11, 2>>)
  /\ clockMonth = 10
  /\ tzBehind \in BOOLEAN
  /\ period1Data = <<>>
  /\ period2Data = <<>>
  /\ period1Label = ""
  /\ period2Label = ""
  /\ method = "none"
  /\ queryText = ""
  /\ engineCall = NoCall
  /\ earlierCall = NoCall

\* The handler answers.
Respond(r, ops) ==
  /\ pc' = "done"
  /\ response' = r
  /\ invoked' = ops
  /\ frame' = NoFrame

\* The handler is suspended at its await with its upstream calls sent.
Suspend(started) ==
  /\ pc' = "awaiting"
  /\ frame' = [fn |-> started.fn, locals |-> started.locals]
  /\ calls' = started.calls
  /\ UNCHANGED <<invoked, response>>

\* What an execute* operation returned or threw reaches the client of the
\* flexible-query endpoint through analyzeNaturalLanguageQuery, or else the
\* caller of the operation.
Deliver(req, fn, outcome) ==
  IF req.entry = "flexible-query"
  THEN Http(200, FlexibleQueryBody(req.accountId, req.query, req.analysis,
                                   FormatOutcome(fn, outcome, req.query)))
  ELSE ToCaller(outcome)

\* An execute* operation is entered: it throws at once or is suspended.
Enter(req, fn, started) ==
  /\ request' = req
  /\ IF started.threw
     THEN Respond(Deliver(req, fn, started), <<>>) /\ UNCHANGED calls
     ELSE Suspend(started)
  /\ UNCHANGED <<engineVars, clock, memoryVars>>

\* POST /api/chatgpt/flexible-query
PostFlexibleQuery ==
  \E accountId \in AccountIds, query \in Queries :
    /\ pc = "idle"
    /\ IF ~Truthy(query) \/ ~Truthy(accountId)
       THEN /\ request' = [entry |-> "flexible-query", accountId |-> accountId,
                           query |-> query]
            /\ Respond(Http(400, [success |-> FALSE,
                                  error   |-> "Both accountId and query are required"]), <<>>)
            /\ UNCHANGED <<calls, engineVars, clock, memoryVars>>
       ELSE LET analysis == Analysis(query, clock)
                fn       == SelectedOperation(analysis)
                req      == [entry |-> "flexible-query", accountId |-> accountId,
                             query |-> query, analysis |-> analysis]
            IN  IF fn = "none"
                THEN /\ request' = req
                     /\ Respond(Http(200, FlexibleQueryBody(accountId, query, analysis,
                                                            EmptyResponse)), <<>>)
                     /\ UNCHANGED <<calls, engineVars, clock, memoryVars>>
                ELSE Enter(req, fn, StartOperation(fn, analysis))

\* POST /api/chatgpt/compare-periods
PostComparePeriods ==
  \E periods \in PeriodPairs, analysisType \in AnalysisTypes, campaignFilter \in {Null, "brand"} :
    LET query1 == buildDynamicQuery(analysisType \o "Intelligence", periods[1], campaignFilter)
        query2 == buildDynamicQuery(analysisType \o "Intelligence", periods[2], campaignFilter)
        failed == IF query1.threw THEN query1 ELSE query2
    IN  /\ pc = "idle"
        /\ request' = [entry |-> "compare-periods", accountId |-> "123-456-7890",
                       period1 |-> periods[1], period2 |-> periods[2],
                       analysisType |-> analysisType, campaignFilter |-> campaignFilter]
        /\ IF failed.threw
           THEN /\ Respond(Http(500, [success |-> FALSE, error |-> failed.message]), <<>>)
                /\ UNCHANGED calls
           ELSE Suspend(Suspended("compare-periods", <<query1.value, query2.value>>,
                                  [period1Label |-> periods[1].label,
                                   period2Label |-> periods[2].label,
                                   query1       |-> query1.value]))
        /\ UNCHANGED <<engineVars, clock, memoryVars>>

\* The execute* operations called on their own.
CallExecuteComparison ==
  \E analysisType \in AnalysisTypes, campaignFilters \in {<<>>, <<"brand">>} :
    /\ pc = "idle"
    /\ Enter([entry |-> "executeComparison", accountId |-> "123-456-7890",
              analysisType |-> analysisType, campaignFilters |-> campaignFilters],
             "executeComparison",
             executeComparison(Period1, Period2, analysisType, campaignFilters))

CallExecuteSeasonalAnalysis ==
  \E primary \in {Period1, NoInterval} :
    /\ pc = "idle"
    /\ Enter([entry |-> "executeSeasonalAnalysis", accountId |-> "123-456-7890",
              primary |-> primary],
             "executeSeasonalAnalysis",
             executeSeasonalAnalysis([type |-> "single", primary |-> primary,
                                      comparison |-> NoInterval]))

CallExecuteCampaignSearch ==
  \E campaignFilters \in {<<>>, <<"sale">>, <<"Winter", "deals">>},
     dateRange \in {Period1, NoInterval} :
    /\ pc = "idle"
    /\ Enter([entry |-> "executeCampaignSearch", accountId |-> "123-456-7890",
              campaignFilters |-> campaignFilters, dateRange |-> dateRange],
             "executeCampaignSearch",
             executeCampaignSearch(campaignFilters, dateRange))

CallExecuteSinglePeriodAnalysis ==
  \E analysisType \in AnalysisTypes, dateRange \in {Period1, NoInterval} :
    /\ pc = "idle"
    /\ Enter([entry |-> "executeSinglePeriodAnalysis", accountId |-> "123-456-7890",
              analysisType |-> analysisType, dateRange |-> dateRange],
             "executeSinglePeriodAnalysis",
             executeSinglePeriodAnalysis(dateRange, analysisType))

\* customer.query settles call i: executeGAQLQuery resolves to `result`.
Settle(i, result) ==
  /\ pc = "awaiting"
  /\ calls[i].settled = 0
  /\ calls' = [calls EXCEPT ![i] = [query   |-> calls[i].query,
                                    settled |-> 1 + Cardinality({j \in DOMAIN calls :
                                                                   calls[j].settled > 0}),
                                    result  |-> result]]
  /\ UNCHANGED <<request, pc, frame, invoked, response, engineVars, clock, memoryVars>>

UpstreamSucceeds == \E i \in DOMAIN calls, data \in UpstreamData : Settle(i, QuerySuccess(data))

UpstreamFails == \E i \in DOMAIN calls, m \in UpstreamMessages : Settle(i, QueryFailure(m))

\* The suspended operation resumes once everything it awaits has settled.
Resumes(fn) == pc = "awaiting" /\ frame.fn = fn /\ AllSettled(calls)

ResumeOperation(fn, resumed) ==
  /\ Resumes(fn)
  /\ Respond(Deliver(request, fn, resumed.outcome), resumed.invoked)
  /\ UNCHANGED <<request, calls, engineVars, clock, memoryVars>>

ResumeExecuteComparison ==
  ResumeOperation("executeComparison",
                  executeComparisonResumed(PromiseAll(calls), frame.locals))

ResumeExecuteSeasonalAnalysis ==
  ResumeOperation("executeSeasonalAnalysis",
                  executeSeasonalAnalysisResumed(PromiseAll(calls), frame.locals,
                                                 clockMonth, tzBehind))

ResumeExecuteCampaignSearch ==
  ResumeOperation("executeCampaignSearch",
                  executeCampaignSearchResumed(PromiseAll(calls), frame.locals))

ResumeExecuteSinglePeriodAnalysis ==
  ResumeOperation("executeSinglePeriodAnalysis",
                  executeSinglePeriodAnalysisResumed(PromiseAll(calls), frame.locals))

ResumeComparePeriods ==
  /\ Resumes("compare-periods")
  /\ LET resumed == comparePeriodsResumed(PromiseAll(calls), frame.locals,
                                          request.accountId, clockMonth, tzBehind)
     IN  Respond(resumed.response, resumed.invoked)
  /\ UNCHANGED <<request, calls, engineVars, clock, memoryVars>>

ServerNext ==
  \/ PostFlexibleQuery
  \/ PostComparePeriods
  \/ CallExecuteComparison
  \/ CallExecuteSeasonalAnalysis
  \/ CallExecuteCampaignSearch
  \/ CallExecuteSinglePeriodAnalysis
  \/ UpstreamSucceeds
  \/ UpstreamFails
  \/ ResumeExecuteComparison
  \/ ResumeExecuteSeasonalAnalysis
  \/ ResumeExecuteCampaignSearch
  \/ ResumeExecuteSinglePeriodAnalysis
  \/ ResumeComparePeriods

SpecServer == ServerInit /\ [][ServerNext]_vars

---------------------------------------------------------------------------
(* Properties of the server *)

\* The request is a two-period comparison: executeComparison, called on its
\* own or selected by analyzeNaturalLanguageQuery, or compare-periods.
ComparisonRequest ==
  \/ request.entry \in {"executeComparison", "compare-periods"}
  \/ /\ request.entry = "flexible-query"
     /\ "analysis" \in DOMAIN request
     /\ SelectedOperation(request.analysis) = "executeComparison"

\* The labels of the two periods of the comparison requested.
LabelsRequested ==
  IF request.entry = "compare-periods"
  THEN <<request.period1.label, request.period2.label>>
  ELSE IF request.entry = "flexible-query"
  THEN <<request.analysis.dateRanges.primary.label,
         request.analysis.dateRanges.comparison.label>>
  ELSE <<Period1.label, Period2.label>>

BothSucceeded == \A i \in DOMAIN calls : calls[i].settled > 0 /\ calls[i].result.success
SomeFailed == \E i \in DOMAIN calls : calls[i].settled > 0 /\ ~calls[i].result.success

\* The comparison of the rows call 1 and call 2 brought, in this order.
ComparisonByPosition ==
  comparePerformance(calls[1].result.data, calls[2].result.data,
                     LabelsRequested[1], LabelsRequested[2])

\* The comparison a response carries: none, or one.
ComparisonDelivered ==
  IF response.to = "caller"
  THEN (IF response.outcome.threw THEN <<>> ELSE <<response.outcome.value>>)
  ELSE IF response.to = "client" /\ "comparison" \in DOMAIN response.body
  THEN << [f \in DOMAIN ComparisonByPosition |-> response.body.comparison[f]] >>
  ELSE IF response.to = "client" /\ "queryAnalysis" \in DOMAIN response.body
          /\ "data" \in DOMAIN response.body.queryAnalysis.response
  THEN << response.body.queryAnalysis.response.data >>
  ELSE <<>>

\* The response reports a failure.
ReportsFailure ==
  \/ response.to = "caller" /\ response.outcome.threw
  \/ response.to = "client" /\ ~response.body.success

\* C7: in a two-period comparison both upstream calls are issued before
\* either result is awaited; the result is computed and the response
\* produced only after both calls have completed; and the result depends on
\* what call 1 and call 2 brought only, not on the order in which the two
\* completed.
C7_BothIssuedBothAwaited ==
  ComparisonRequest =>
    /\ pc = "awaiting" => Len(calls) = 2
    /\ calls # <<>> => Len(calls) = 2
    /\ ~AllSettled(calls) => response = NoResponse /\ invoked = <<>>
    /\ pc = "done" /\ calls # <<>> =>
         /\ AllSettled(calls)
         /\ BothSucceeded /\ ~ReportsFailure => ComparisonDelivered = <<ComparisonByPosition>>
         /\ SomeFailed => ComparisonDelivered = <<>>
         /\ SomeFailed /\ request.entry = "compare-periods" =>
              response.body.details = [period1Error |-> ErrorOf(calls[1].result),
                                       period2Error |-> ErrorOf(calls[2].result)]

\* A comparison was delivered whose second call completed before its first,
\* the two having brought different rows.
C7_Witness ==
  /\ ComparisonRequest
  /\ pc = "done"
  /\ Len(calls) = 2
  /\ calls[2].settled = 1
  /\ calls[1].settled = 2
  /\ BothSucceeded
  /\ Len(calls[1].result.data) = 2
  /\ Len(calls[2].result.data) = 1
  /\ ~ReportsFailure
  /\ ComparisonDelivered = <<ComparisonByPosition>>
  /\ "clicks" \in DOMAIN ComparisonDelivered[1].changes

\* C8: if either upstream call of a period comparison reports failure, the
\* comparison as a whole fails: comparePerformance is not invoked and the
\* response reports the failure and carries no comparison and no metrics of
\* the period that succeeded.
C8_PartialFailureFailsAll ==
  ComparisonRequest /\ pc = "done" /\ SomeFailed =>
    /\ "comparePerformance" \notin Range(invoked)
    /\ "calculatePeriodMetrics" \notin Range(invoked)
    /\ ReportsFailure
    /\ ComparisonDelivered = <<>>
    /\ response.to = "client" => response.status = 500

\* A comparison answered after exactly one of its calls failed, the other
\* having brought rows.
C8_Witness ==
  /\ ComparisonRequest
  /\ pc = "done"
  /\ Len(calls) = 2
  /\ \E i, j \in DOMAIN calls :
       /\ ~calls[i].result.success
       /\ calls[j].result.success
       /\ Len(calls[j].result.data) > 0
  /\ ReportsFailure

\* The response contains the message m.
Carries(m) ==
  IF response.to = "caller"
  THEN response.outcome.threw /\ Includes(response.outcome.message, m)
  ELSE IF response.to = "client" /\ "details" \in DOMAIN response.body
  THEN m \in Range(response.body.details)
  ELSE IF response.to = "client" /\ "queryAnalysis" \in DOMAIN response.body
  THEN /\ "message" \in DOMAIN response.body.queryAnalysis.response
       /\ Includes(response.body.queryAnalysis.response.message, m)
  ELSE FALSE

C10_MismatchRunsSinglePeriod ==
  /\ request.entry = "flexible-query"
  /\ pc = "done"
  /\ "analysis" \in DOMAIN request
  /\ request.analysis.intent = "comparison"
  /\ request.analysis.dateRanges.type = "single"
  => LET r == response.body.queryAnalysis.response
     IN  \/ "performance" \in DOMAIN r
         \/ /\ "message" \in DOMAIN r
            /\ Includes(r.message, "Single period analysis failed")

---------------------------------------------------------------------------
(* Reading a query as a state machine: a caller passes a free-text query to *)
(* the intent classifier, to the date-range resolver (which reads the       *)
(* clock), to the campaign pattern matcher (with the campaigns fetched) or  *)
(* to the campaign filter extractor.                                        *)

QueryMethods ==
  {"detectQueryIntent", "parseDateRequest", "findCampaignPatterns", "extractCampaignFilters"}

\* Every text alone and every two of them joined by a blank.
OneOrTwo(texts) == texts \cup {a \o " " \o b : a, b \in texts}

\* Queries for the intent classifier: cues of each pattern, in either case,
\* inside other words ("TVs" holds "vs"), and texts without a cue.
IntentTexts ==
  {"", "compare", "Summer", "VERSUS", "TVs", "find campaigns", "campaigns like",
   "campaign with brand", "growth", "over time", "show spend", "holiday", "campaign"}

IntentQueries == OneOrTwo(IntentTexts)

\* Queries for the date-range resolver: each pattern alone and together
\* with the others.
DateQueries ==
  {"", "show spend", "last 30 days",
   "same time last year", "this June vs last year", "current week vs last year",
   "yoy", "Year Over Year growth",
   "same time last year july 4th", "yoy Independence Day", "this summer vs last year 4th of July",
   "from 2023-01-01 to 2023-01-31", "spend FROM 2024-02-10 TO 2024-03-05 please",
   "from 2023-13-45  to 0000-00-00", "from 2024-03-05 to 2024-02-10",
   "yoy from 2023-01-01 to 2023-01-31",
   "march 2022 from 2023-01-01 to 2023-01-31",
   "same time last year march 2022",
   "march 2022", "MARCH 2022", "Sep 2021", "zzz 2022", "sept 2020", "feb 2024",
   "February 2023", "march  2022", "dec 0999", "june 20225",
   "feb 1900", "Feb 2000", "feb 0000", "feb 0096",
   "constructor 2022", "__proto__ 2022",
   "spend in december 2025 and jan 2026", "budget 5000 in may 2024"}

\* Queries for the campaign pattern matcher.
SearchQueries ==
  {"", "summer sale", "Summer Sale", "winter deals", "brand awareness promo",
   "holiday", "shop", " spring", "find spring offer", "clearance"}

\* Queries for the campaign filter extractor: quoted parts (repeated, empty,
\* unclosed), the two keyword phrasings in either order, and their overlaps.
FilterTexts ==
  {"", "show spend", "find campaigns with sale", "campaign containing Brand",
   "\"Summer Sale\" campaigns", "summer campaigns", "\"summer\" and summer campaigns",
   "\"a\" \"b\" \"a\"", "brand campaigns including brand",
   "Winter campaign vs summer campaigns with \"deals\"", "say \"\" now", "open \"quote",
   "\"x\" campaigns with y and z campaign", "z campaign with y",
   "\"deals\" for z campaign with deals", "Campaigns INCLUDING top_10 items",
   "my  campaigns", "re-targeting campaigns"}

FilterQueries == OneOrTwo(FilterTexts)

\* The clock when the UTC calendar date is utcDate: in a time zone behind
\* UTC the local date is still the day before at the start of a UTC day.
ClockAt(utcDate, behind) ==
  IF behind /\ utcDate[3] = 1
  THEN (IF utcDate[2] = 1 THEN Clock(utcDate[1] - 1, 12, utcDate)
        ELSE Clock(utcDate[1], utcDate[2] - 1, utcDate))
  ELSE Clock(utcDate[1], utcDate[2], utcDate)

ClockYears == {2024, 2025}

\* The first, the fifteenth and the last day of every month of those years.
ClockDays ==
  {date \in {<<y, m, d>> : y \in ClockYears, m \in 1..12, d \in 1..31} :
     date[3] \in {1, 15, DaysInMonth(date[1], date[2])}}

\* The arguments of one call: only parseDateRequest reads the clock, only
\* findCampaignPatterns reads the campaigns.
QueryInit ==
  /\ method \in QueryMethods
  /\ queryText \in IF method = "detectQueryIntent" THEN IntentQueries
                   ELSE IF method = "parseDateRequest" THEN DateQueries
                   ELSE IF method = "findCampaignPatterns" THEN SearchQueries
                   ELSE FilterQueries
  /\ tzBehind \in IF method = "parseDateRequest" THEN BOOLEAN ELSE {FALSE}
  /\ clock \in IF method = "parseDateRequest"
               THEN {ClockAt(utcDate, tzBehind) : utcDate \in ClockDays}
               ELSE {Clock(2026, 11, <<2026, 11, 2>>)}
  /\ period1Data \in IF method = "findCampaignPatterns"
                     THEN {RowsAt(ix) : ix \in DistinctSeqs(1..Len(RowList), MaxRows)}
                     ELSE {<<>>}
  /\ period2Data = <<>>
  /\ period1Label = ""
  /\ period2Label = ""
  /\ clockMonth = 0
  /\ engineCall = NoCall
  /\ earlierCall = NoCall
  /\ ServerIdle
  /\ MemoryIdle

QueryUnchanged ==
  UNCHANGED <<period1Data, period2Data, period1Label, period2Label, clockMonth, tzBehind,
              method, queryText, earlierCall, serverVars, memoryVars>>

CallDetectQueryIntent ==
  /\ method = "detectQueryIntent"
  /\ engineCall = NoCall
  /\ engineCall' = [fn |-> "detectQueryIntent", value |-> detectQueryIntent(queryText)]
  /\ QueryUnchanged

CallParseDateRequest ==
  /\ method = "parseDateRequest"
  /\ engineCall = NoCall
  /\ engineCall' = [fn |-> "parseDateRequest", value |-> parseDateRequest(queryText, clock)]
  /\ QueryUnchanged

CallFindCampaignPatterns ==
  /\ method = "findCampaignPatterns"
  /\ engineCall = NoCall
  /\ engineCall' = [fn    |-> "findCampaignPatterns",
                    value |-> findCampaignPatterns(queryText, period1Data)]
  /\ QueryUnchanged

CallExtractCampaignFilters ==
  /\ method = "extractCampaignFilters"
  /\ engineCall = NoCall
  /\ engineCall' = [fn |-> "extractCampaignFilters", value |-> extractCampaignFilters(queryText)]
  /\ QueryUnchanged

QueryNext ==
  \/ CallDetectQueryIntent
  \/ CallParseDateRequest
  \/ CallFindCampaignPatterns
  \/ CallExtractCampaignFilters

SpecQuery == QueryInit /\ [][QueryNext]_vars

---------------------------------------------------------------------------
(* Properties of the reading of a query *)

Classified == engineCall.fn = "detectQueryIntent"
Resolved == engineCall.fn = "parseDateRequest"
Searched == engineCall.fn = "findCampaignPatterns"

\* The text holds one of the words, in any case.
HoldsAny(text, words) == \E w \in words : Includes(toLowerCase(text), w)

ComparisonCue == HoldsAny(queryText, {"vs", "versus", "compare", "compared to", "against"})
SeasonalCue ==
  HoldsAny(queryText, {"seasonal", "summer", "winter", "spring", "fall", "autumn", "holiday"})
SearchPhrasing ==
  HoldsAny(queryText, {"campaign with", "campaigns with", "find campaigns",
                       "campaigns containing", "campaigns like"})
TrendPhrasing == HoldsAny(queryText, {"trend", "over time", "pattern", "growth"})

\* C11 as stated: for every query detectQueryIntent returns one label, a
\* member of {comparison, seasonal, campaign_search, single_period}.
C11_FourLabels ==
  Classified =>
    engineCall.value \in {"comparison", "seasonal", "campaign_search", "single_period"}

\* C11, amended: for every query detectQueryIntent returns one label, a
\* member of {comparison, seasonal, campaign_search, trend, single_period};
\* "trend" is the label of a query with trend phrasing and no earlier cue.
C11_FiveLabels ==
  Classified =>
    /\ engineCall.value \in
         {"comparison", "seasonal", "campaign_search", "trend", "single_period"}
    /\ engineCall.value = "trend" <=>
         TrendPhrasing /\ ~ComparisonCue /\ ~SeasonalCue /\ ~SearchPhrasing

\* A query was labelled "trend".
C11_Witness == Classified /\ queryText = "growth over time" /\ engineCall.value = "trend"

\* C12: detectQueryIntent tries the comparison cues, the seasonal cues, the
\* campaign-search phrasing and the trend phrasing in this order and the
\* first that matches decides; a query matching none is single_period.
C12_FirstMatchDecides ==
  Classified =>
    /\ ComparisonCue => engineCall.value = "comparison"
    /\ ~ComparisonCue /\ SeasonalCue => engineCall.value = "seasonal"
    /\ ~ComparisonCue /\ ~SeasonalCue /\ SearchPhrasing =>
         engineCall.value = "campaign_search"
    /\ ~ComparisonCue /\ ~SeasonalCue /\ ~SearchPhrasing /\ TrendPhrasing =>
         engineCall.value = "trend"
    /\ ~ComparisonCue /\ ~SeasonalCue /\ ~SearchPhrasing /\ ~TrendPhrasing =>
         engineCall.value = "single_period"

\* A query with a comparison cue and a seasonal cue, the seasonal one
\* first in the text, was classified comparison.
C12_Witness ==
  /\ Classified
  /\ queryText = "Summer VERSUS"
  /\ ComparisonCue
  /\ SeasonalCue
  /\ engineCall.value = "comparison"

\* The patterns of parseDateRequest, as the query satisfies them.
YearOverYearAsked == yoyPattern(queryText) \/ lastYearSame(queryText)
RangeAsked == customRange(queryText)
MonthAsked == monthYear(queryText)

\* The calendar date a text 'YYYY-MM-DD' names.
DateOf(text) ==
  <<ParseInt(SubSeq(text, 1, 4)), ParseInt(SubSeq(text, 6, 7)), ParseInt(SubSeq(text, 9, 10))>>

\* The number of the day of a date of the Gregorian calendar, counted from
\* its first day.
DayNumber(date) ==
  LET y      == date[1] - 1
      before == <<0, 31, 59, 90, 120, 151, 181, 212, 243, 273, 304, 334>>
      leap   == (date[1] % 4 = 0 /\ date[1] % 100 # 0) \/ date[1] % 400 = 0
  IN  365 * y + (y \div 4) - (y \div 100) + (y \div 400)
      + before[date[2]] + (IF leap /\ date[2] > 2 THEN 1 ELSE 0) + date[3]

\* The text ends with the given ending.
EndsWith(text, ending) ==
  /\ Len(text) >= Len(ending)
  /\ SubSeq(text, Len(text) - Len(ending) + 1, Len(text)) = ending

\* C13: parseDateRequest resolves a query by the earliest pattern it
\* matches, in the order year-over-year, explicit range, month and year,
\* default; the type is 'comparison', with both comparison dates set, if and
\* only if the year-over-year pattern matches; a query matching no pattern
\* gives type 'single' with the 30 days ending now, labeled "Last 30 Days".
C13_FirstPatternResolves ==
  Resolved =>
    LET r == engineCall.value
    IN  /\ r.type = "comparison" <=> YearOverYearAsked
        /\ r.type \in {"comparison", "single"}
        /\ YearOverYearAsked =>
             /\ Truthy(r.comparison.start)
             /\ Truthy(r.comparison.end)
             /\ EndsWith(r.primary.label, IntToString(clock.year))
             /\ EndsWith(r.comparison.label, IntToString(clock.year - 1))
        /\ ~YearOverYearAsked => r.comparison = NoInterval
        /\ ~YearOverYearAsked /\ RangeAsked =>
             r.primary.label = r.primary.start \o " to " \o r.primary.end
        /\ ~YearOverYearAsked /\ ~RangeAsked /\ MonthAsked =>
             /\ EndsWith(r.primary.start, "-01")
             /\ ~Includes(r.primary.label, " to ")
             /\ r.primary.label # "Last 30 Days"
        /\ ~YearOverYearAsked /\ ~RangeAsked /\ ~MonthAsked =>
             /\ r.primary.label = "Last 30 Days"
             /\ DateOf(r.primary.end) = clock.utcDate
             /\ DayNumber(DateOf(r.primary.end)) - DayNumber(DateOf(r.primary.start)) = 30

\* A query naming a month and, after it, an explicit range was resolved as
\* the range.
C13_Witness ==
  /\ Resolved
  /\ queryText = "march 2022 from 2023-01-01 to 2023-01-31"
  /\ RangeAsked
  /\ MonthAsked
  /\ engineCall.value.type = "single"
  /\ engineCall.value.primary.start = "2023-01-01"

HolidayNamed ==
  HoldsAny(queryText, {"4th of july", "july 4th", "fourth of july", "independence day"})

EnglishMonths ==
  <<"January", "February", "March", "April", "May", "June",
    "July", "August", "September", "October", "November", "December">>

\* The number of days of a month, by the calendar.
LengthOfMonth(year, month) ==
  DayNumber(IF month = 12 THEN <<year + 1, 1, 1>> ELSE <<year, month + 1, 1>>)
    - DayNumber(<<year, month, 1>>)

\* The whole month of a year, first to last day, under the label "<Month> Y".
WholeMonth(year, month) ==
  LET ym == IntToString(year) \o "-" \o (IF month < 10 THEN "0" ELSE "") \o IntToString(month)
  IN  Interval(ym \o "-01", ym \o "-" \o IntToString(LengthOfMonth(year, month)),
               EnglishMonths[month] \o " " \o IntToString(year))

\* C14: for a year-over-year query naming no holiday, read in month M of
\* year Y, parseDateRequest returns as primary the first to the last day of
\* month M of Y labeled "<MonthName> Y" and as comparison the first to the
\* last day of month M of Y-1 labeled "<MonthName> Y-1".
C14_SameMonthLastYear ==
  Resolved /\ YearOverYearAsked /\ ~HolidayNamed =>
    /\ engineCall.value.type = "comparison"
    /\ engineCall.value.primary = WholeMonth(clock.year, clock.month)
    /\ engineCall.value.comparison = WholeMonth(clock.year - 1, clock.month)

\* "same time last year" read on 2024-06-15.
C14_Witness ==
  /\ Resolved
  /\ queryText = "same time last year"
  /\ clock = Clock(2024, 6, <<2024, 6, 15>>)
  /\ engineCall.value.primary = Interval("2024-06-01", "2024-06-30", "June 2024")
  /\ engineCall.value.comparison = Interval("2023-06-01", "2023-06-30", "June 2023")

\* The start of the leftmost match of the month and year pattern, and what
\* the pattern matched and captured there.
MonthMatchStart ==
  CHOOSE i \in Anywhere(queryText) :
    MonthYearAt(queryText, i) /\ \A k \in 1..(i - 1) : ~MonthYearAt(queryText, k)

MonthWord == SubSeq(queryText, MonthMatchStart, RunEnd(queryText, MonthMatchStart, WordChars) - 1)

YearDigits ==
  LET y == RunEnd(queryText, RunEnd(queryText, MonthMatchStart, WordChars), SpaceChars)
  IN  SubSeq(queryText, y, y + 3)

\* The month an English month name or its three-letter abbreviation names,
\* in any case; January for any other word.
MonthNamed(word) ==
  LET names == <<"january", "february", "march", "april", "may", "june", "july",
                 "august", "september", "october", "november", "december">>
      l     == toLowerCase(word)
  IN  IF \E m \in DOMAIN names : l = names[m] \/ l = SubSeq(names[m], 1, 3)
      THEN CHOOSE m \in DOMAIN names : l = names[m] \/ l = SubSeq(names[m], 1, 3)
      ELSE 1

\* C15: a `<month name> <year>` query that matches no earlier pattern gives
\* the whole calendar month of that year, labeled with the word and the year
\* matched; the month name is read in any case, in full or by its first
\* three letters, and any other word in its place gives January.
C15_MonthOfYear ==
  Resolved /\ ~YearOverYearAsked /\ ~RangeAsked /\ MonthAsked =>
    LET year  == ParseInt(YearDigits)
        whole == WholeMonth(year, MonthNamed(MonthWord))
        r     == engineCall.value
    IN  /\ r.type = "single"
        /\ r.comparison = NoInterval
        /\ r.primary.start = whole.start
        /\ r.primary.end = whole.end
        /\ r.primary.label = MonthWord \o " " \o IntToString(year)

\* The query holds `from d1 to d2`, in any case, the words one or two
\* blanks apart.
HoldsRange(d1, d2) ==
  \E g1, g2, g3 \in {" ", "  "} :
    Includes(toLowerCase(queryText), "from" \o g1 \o d1 \o g2 \o "to" \o g3 \o d2)

\* C16: for a query holding `from <D1> to <D2>` with ISO dates and not
\* matching the year-over-year pattern, parseDateRequest returns type
\* 'single' with primary.start exactly D1 and primary.end exactly D2, as
\* written in the query, and no comparison interval.
C16_RangeAsWritten ==
  Resolved /\ ~YearOverYearAsked /\ RangeAsked =>
    LET r == engineCall.value
    IN  /\ r.type = "single"
        /\ r.comparison = NoInterval
        /\ Len(r.primary.start) = 10
        /\ Len(r.primary.end) = 10
        /\ HoldsRange(r.primary.start, r.primary.end)

\* "from 2023-01-01 to 2023-01-31" gave exactly these two dates.
C16_Witness ==
  /\ Resolved
  /\ queryText = "from 2023-01-01 to 2023-01-31"
  /\ engineCall.value.type = "single"
  /\ engineCall.value.primary.start = "2023-01-01"
  /\ engineCall.value.primary.end = "2023-01-31"
  /\ engineCall.value.comparison = NoInterval


\* Theme p matches both the query and the lower-cased name of the campaign.
ThemeOfBoth(p, campaign) ==
  /\ HoldsAny(queryText, CampaignPatterns[p].lits)
  /\ HoldsAny(campaign.name, CampaignPatterns[p].lits)

\* The positions of the result that pair the campaign with theme p.
MatchesPairing(p, campaign) ==
  {k \in DOMAIN engineCall.value :
     /\ engineCall.value[k].campaign = campaign
     /\ engineCall.value[k].matchType = CampaignPatterns[p].type}

\* C17: findCampaignPatterns emits a match for campaign c and theme t if and
\* only if t matches both the query and c's lower-cased name, once per such
\* theme: the matches of a campaign are as many as the themes matching both,
\* and the result holds nothing else.
C17_OneMatchPerSharedTheme ==
  Searched =>
    /\ \A i \in DOMAIN period1Data : \A p \in DOMAIN CampaignPatterns :
         Cardinality(MatchesPairing(p, period1Data[i]))
           = IF ThemeOfBoth(p, period1Data[i]) THEN 1 ELSE 0
    /\ Len(engineCall.value)
         = Cardinality({ip \in (DOMAIN period1Data) \X (DOMAIN CampaignPatterns) :
                          ThemeOfBoth(ip[2], period1Data[ip[1]])})

\* "brand awareness promo" against Brand Awareness, Spring Promo and Winter
\* Clearance: one brand match, one promotional match, and nothing for the
\* seasonal names, the query not being seasonal.
C17_Witness ==
  /\ Searched
  /\ queryText = "brand awareness promo"
  /\ period1Data = <<RowList[2], RowList[5], RowList[4]>>
  /\ Len(engineCall.value) = 2
  /\ \E k \in DOMAIN engineCall.value :
       engineCall.value[k].campaign = RowList[2] /\ engineCall.value[k].matchType = "brand"
  /\ \E k \in DOMAIN engineCall.value :
       engineCall.value[k].campaign = RowList[5]
       /\ engineCall.value[k].matchType = "promotional"


\* The position of a theme in the order holiday, seasonal, promotional,
\* brand, conversion.
ThemeOrder ==
  ("holiday" :> 1) @@ ("seasonal" :> 2) @@ ("promotional" :> 3) @@ ("brand" :> 4)
  @@ ("conversion" :> 5)

\* The position of the campaign of a match in the list searched.
CampaignOrder(match) ==
  CHOOSE i \in DOMAIN period1Data : period1Data[i] = match.campaign

\* Match a was emitted before match b: an earlier campaign, or the same
\* campaign under an earlier theme.
EmittedBefore(a, b) ==
  \/ CampaignOrder(a) < CampaignOrder(b)
  \/ /\ CampaignOrder(a) = CampaignOrder(b)
     /\ ThemeOrder[a.matchType] < ThemeOrder[b.matchType]

\* C18: the result of findCampaignPatterns is sorted by non-increasing
\* relevanceScore, every score lies between 0 and 100, and matches of equal
\* score keep their emission order (campaign order, then theme order).
C18_SortedByRelevance ==
  Searched =>
    LET result == engineCall.value
    IN  /\ \A k \in DOMAIN result :
             /\ ~Lt(result[k].relevanceScore, Zero)
             /\ ~Gt(result[k].relevanceScore, Int2Num(100))
        /\ \A j, k \in DOMAIN result :
             j < k =>
               /\ ~Lt(result[j].relevanceScore, result[k].relevanceScore)
               /\ result[j].relevanceScore = result[k].relevanceScore
                    => EmittedBefore(result[j], result[k])

\* "summer sale" against Winter Clearance, Spring Promo and Summer Sale
\* Blowout: the last campaign scores 100 and comes first, the other two tie
\* at 0 and stay in the order of the list.
C18_Witness ==
  /\ Searched
  /\ queryText = "summer sale"
  /\ period1Data = <<RowList[4], RowList[5], RowList[3]>>
  /\ Len(engineCall.value) = 6
  /\ engineCall.value[1].campaign = RowList[3]
  /\ engineCall.value[1].relevanceScore = Int2Num(100)
  /\ engineCall.value[4].campaign = RowList[4]
  /\ engineCall.value[5].campaign = RowList[5]
  /\ engineCall.value[5].matchType = "seasonal"
  /\ engineCall.value[6].matchType = "promotional"
  /\ engineCall.value[4].relevanceScore = engineCall.value[6].relevanceScore


\* C19: matching "summer sale" against the campaigns Summer Sale Blowout and
\* Winter Clearance returns exactly one match; it refers to the first
\* campaign, its matchType is seasonal or promotional, and its
\* relevanceScore is greater than 0.
C19_SummerSaleOnly ==
  /\ Searched
  /\ queryText = "summer sale"
  /\ period1Data = <<RowList[3], RowList[4]>>
  => /\ Len(engineCall.value) = 1
     /\ engineCall.value[1].campaign = RowList[3]
     /\ engineCall.value[1].matchType \in {"seasonal", "promotional"}
     /\ Gt(engineCall.value[1].relevanceScore, Zero)

\* What the search returns for it: the first campaign under holiday,
\* seasonal and promotional with score 100, then Winter Clearance under
\* seasonal with score 0.
SummerSaleFourMatches ==
  /\ Searched
  /\ queryText = "summer sale"
  /\ period1Data = <<RowList[3], RowList[4]>>
  => /\ Len(engineCall.value) = 4
     /\ \A k \in 1..3 : /\ engineCall.value[k].campaign = RowList[3]
                        /\ engineCall.value[k].relevanceScore = Int2Num(100)
     /\ <<engineCall.value[1].matchType, engineCall.value[2].matchType,
          engineCall.value[3].matchType>> = <<"holiday", "seasonal", "promotional">>
     /\ engineCall.value[4].campaign = RowList[4]
     /\ engineCall.value[4].matchType = "seasonal"
     /\ engineCall.value[4].relevanceScore = Zero


---------------------------------------------------------------------------
(* Properties of the seasonal grouping *)

\* The season of each 0-based month index, January first.
SeasonOfMonth ==
  <<"Winter", "Winter", "Spring", "Spring", "Spring", "Summer", "Summer", "Summer",
    "Fall", "Fall", "Fall", "Winter">>

\* The number of input rows whose month lies in the season.
RowsCountedIn(season) ==
  Cardinality({i \in DOMAIN period1Data :
     SeasonOfMonth[RowMonth(period1Data[i], clockMonth, tzBehind) + 1] = season})

\* The row counter of a season in monthlyData, 0 for a season without entry.
CounterOf(monthlyData, season) ==
  IF season \in DOMAIN monthlyData THEN monthlyData[season].campaigns ELSE 0

\* The counters of monthlyData are the rows of each season, and add up to
\* the number of rows.
CountersPartition(monthlyData) ==
  /\ DOMAIN monthlyData \subseteq {"Spring", "Summer", "Fall", "Winter"}
  /\ \A season \in {"Spring", "Summer", "Fall", "Winter"} :
       CounterOf(monthlyData, season) = RowsCountedIn(season)
  /\ CounterOf(monthlyData, "Spring") + CounterOf(monthlyData, "Summer")
       + CounterOf(monthlyData, "Fall") + CounterOf(monthlyData, "Winter")
     = Len(period1Data)

\* C20: getSeason maps the month indices 2-4 to Spring, 5-7 to Summer, 8-10
\* to Fall and 11, 0, 1 to Winter; detectSeasonalPatterns counts every input
\* row in exactly one season, so the row counters of the seasons sum to the
\* number of rows, and avgCampaigns of a season is its counter divided by 3
\* and rounded.
C20_SeasonsPartitionRows ==
  Seasoned =>
    /\ \A month \in 0..11 : getSeason(month) = SeasonOfMonth[month + 1]
    /\ CountersPartition(GroupBySeason(period1Data, <<>>, clockMonth, tzBehind))
    /\ DOMAIN engineCall.value.seasonal
         = {season \in {"Spring", "Summer", "Fall", "Winter"} : RowsCountedIn(season) > 0}
    /\ \A season \in DOMAIN engineCall.value.seasonal :
         engineCall.value.seasonal[season].avgCampaigns
           = (2 * RowsCountedIn(season) + 3) \div 6

\* In January a row dated 15 December and two undated rows are all counted
\* in Winter, whose avgCampaigns is 1; two rows of another season give 1 as
\* well, one row gives 0.
C20_Witness ==
  /\ Seasoned
  /\ clockMonth = 0
  /\ period1Data = <<RowList[2], RowList[1], RowList[6]>>
  /\ DOMAIN engineCall.value.seasonal = {"Winter"}
  /\ engineCall.value.seasonal["Winter"].avgCampaigns = 1


---------------------------------------------------------------------------
(* Properties of the upstream calls of a natural-language query *)

\* The operation the request runs: the execute* operation called on its
\* own, or the one analyzeNaturalLanguageQuery selected ("none" when the
\* request was refused or nothing was selected).
OperationRun ==
  IF request.entry = "flexible-query"
  THEN (IF "analysis" \in DOMAIN request THEN SelectedOperation(request.analysis)
        ELSE "none")
  ELSE request.entry

SinglePaths ==
  {"executeSeasonalAnalysis", "executeCampaignSearch", "executeSinglePeriodAnalysis"}

\* C21: processing one natural-language query request issues zero, one or
\* two upstream query calls and never more: exactly two when a period
\* comparison is executed, at most one on the seasonal, campaign-search and
\* single-period paths; a failed call is never issued again.
C21_CallsPerRequest ==
  request.entry \notin {"none", "compare-periods"} =>
    /\ Len(calls) <= 2
    /\ OperationRun = "executeComparison" => Len(calls) = 2
    /\ OperationRun \in SinglePaths => Len(calls) <= 1
    /\ OperationRun = "none" => Len(calls) = 0

\* What holds of the calls: none when buildDynamicQuery threw, otherwise
\* two for a comparison and one on the other paths, each call settled once
\* and the answer given without any further call, also after a failure.
CallsIssuedOnce ==
  request.entry \notin {"none", "compare-periods"} =>
    /\ OperationRun = "executeComparison" => Len(calls) \in {0, 2}
    /\ OperationRun \in SinglePaths => Len(calls) <= 1
    /\ OperationRun = "none" => Len(calls) = 0
    /\ request.entry = "flexible-query" => Len(calls) = 0
    /\ "comparePerformance" \in Range(invoked) => Len(calls) = 2
    /\ pc = "done" /\ SomeFailed => Len(calls) = IF OperationRun = "executeComparison"
                                                 THEN 2 ELSE 1


---------------------------------------------------------------------------
(* Properties of the intervals of a date request *)

\* A calendar date is not after another.
NotAfter(a, b) ==
  \/ a[1] < b[1]
  \/ a[1] = b[1] /\ a[2] < b[2]
  \/ a[1] = b[1] /\ a[2] = b[2] /\ a[3] <= b[3]

\* The interval has both bounds, written as YYYY-MM-DD.
Dated(interval) ==
  /\ Truthy(interval.start) /\ Truthy(interval.end)
  /\ Len(interval.start) = 10 /\ Len(interval.end) = 10

StartNotAfterEnd(interval) ==
  Dated(interval) => NotAfter(DateOf(interval.start), DateOf(interval.end))

\* C22: every interval parseDateRequest returns with non-null bounds has
\* start <= end, for every query and every reference date, the explicit
\* ranges `from D1 to D2` and both intervals of a comparison included.
C22_StartNotAfterEnd ==
  Resolved =>
    /\ StartNotAfterEnd(engineCall.value.primary)
    /\ StartNotAfterEnd(engineCall.value.comparison)

\* The intervals the resolver computes itself are ordered: only a range
\* copied from the query can run backwards.
ComputedIntervalsOrdered ==
  Resolved /\ (YearOverYearAsked \/ ~RangeAsked) =>
    /\ StartNotAfterEnd(engineCall.value.primary)
    /\ StartNotAfterEnd(engineCall.value.comparison)


\* The interval ends on the last day of the month of the year, by the
\* calendar.
EndsWithMonth(interval, year, month) ==
  EndsWith(interval.end, "-" \o IntToString(LengthOfMonth(year, month)))

\* C23: whenever parseDateRequest emits a whole calendar month (the
\* year-over-year default and the month-year case), the end day is the
\* number of days of that month in that year: 31, 30, or for February 29 in
\* a leap year (divisible by 4 and not by 100, or divisible by 400) and 28
\* otherwise.
C23_ActualMonthLength ==
  Resolved =>
    /\ YearOverYearAsked /\ ~HolidayNamed =>
         /\ EndsWithMonth(engineCall.value.primary, clock.year, clock.month)
         /\ EndsWithMonth(engineCall.value.comparison, clock.year - 1, clock.month)
    /\ ~YearOverYearAsked /\ ~RangeAsked /\ MonthAsked =>
         EndsWithMonth(engineCall.value.primary, ParseInt(YearDigits), MonthNamed(MonthWord))

\* The month of the query is named by a word that no object inherits.
OrdinaryMonthWord == toLowerCase(MonthWord) \notin DOMAIN InheritedMembers

\* The end day is the calendar's from the year 100 on, the years of the
\* clock included: in February 2024 a year-over-year request ends on the
\* 29th and its comparison on the 28th.
MonthLengthFromYear100 ==
  Resolved =>
    /\ YearOverYearAsked /\ ~HolidayNamed =>
         /\ EndsWithMonth(engineCall.value.primary, clock.year, clock.month)
         /\ EndsWithMonth(engineCall.value.comparison, clock.year - 1, clock.month)
         /\ clock.year = 2024 /\ clock.month = 2 =>
              /\ engineCall.value.primary.end = "2024-02-29"
              /\ engineCall.value.comparison.end = "2023-02-28"
    /\ /\ ~YearOverYearAsked /\ ~RangeAsked /\ MonthAsked
       /\ OrdinaryMonthWord
       /\ ParseInt(YearDigits) >= 100
       => EndsWithMonth(engineCall.value.primary, ParseInt(YearDigits), MonthNamed(MonthWord))


---------------------------------------------------------------------------
(* Properties of the campaign filters of a query *)

Filtered == engineCall.fn = "extractCampaignFilters"

\* The positions of the double quotes of the query, left to right.
QuoteMarks ==
  LET marks == {i \in 1..Len(queryText) : CharAt(queryText, i) = Quote}
  IN  [k \in 1..Cardinality(marks) |->
         CHOOSE i \in marks : Cardinality({j \in marks : j < i}) = k - 1]

\* The double-quoted parts of the query from the k-th quote on, without
\* their quotes: a quote opens a part when text precedes the next quote,
\* which then closes it.
RECURSIVE QuotedParts(_)
QuotedParts(k) ==
  IF k >= Len(QuoteMarks) THEN <<>>
  ELSE IF QuoteMarks[k + 1] = QuoteMarks[k] + 1 THEN QuotedParts(k + 1)
  ELSE <<SubSeq(queryText, QuoteMarks[k] + 1, QuoteMarks[k + 1] - 1)>> \o QuotedParts(k + 2)

\* The query reads `phrase` from position i on, in any case.
ReadsAt(i, phrase) ==
  /\ i + Len(phrase) - 1 <= Len(queryText)
  /\ toLowerCase(SubSeq(queryText, i, i + Len(phrase) - 1)) = phrase

\* Positions i..j of the query hold a run of word characters.
WordRun(i, j) ==
  /\ 1 <= i /\ i <= j /\ j <= Len(queryText)
  /\ \A t \in i..j : CharAt(queryText, t) \in WordChars

\* The word that starts at position i.
WordFrom(i) ==
  SubSeq(queryText, i,
         CHOOSE j \in i..Len(queryText) : WordRun(i, j) /\ ~WordRun(i, j + 1))

FilterPhrases ==
  {"campaign with ", "campaigns with ", "campaign containing ", "campaigns containing ",
   "campaign including ", "campaigns including "}

\* The token after the first "campaign(s) with/containing/including", if any.
TokenAfterPhrase ==
  LET starts == {i \in 1..Len(queryText) :
                   \E ph \in FilterPhrases : ReadsAt(i, ph) /\ WordRun(i + Len(ph), i + Len(ph))}
  IN  IF starts = {} THEN <<>>
      ELSE LET first == CHOOSE i \in starts : \A k \in starts : i <= k
               ph    == CHOOSE p \in FilterPhrases : ReadsAt(first, p)
           IN  <<WordFrom(first + Len(ph))>>

\* The token immediately before the first " campaign", if any.
TokenBeforeCampaign ==
  LET ends == {j \in 1..Len(queryText) : WordRun(j, j) /\ ReadsAt(j + 1, " campaign")}
  IN  IF ends = {} THEN <<>>
      ELSE LET end == CHOOSE j \in ends : \A k \in ends : j <= k
           IN  <<SubSeq(queryText, CHOOSE i \in 1..end : WordRun(i, end) /\ ~WordRun(i - 1, end),
                        end)>>

\* The elements of a sequence that occur nowhere before themselves.
FirstOccurrences(seq) ==
  LET kept == {i \in DOMAIN seq : \A j \in 1..(i - 1) : seq[j] # seq[i]}
  IN  [k \in 1..Cardinality(kept) |->
         seq[CHOOSE i \in kept : Cardinality({j \in kept : j < i}) = k - 1]]

\* C24: extractCampaignFilters returns a sequence without duplicates that
\* holds every double-quoted part of the query, without its quotes and in
\* order of occurrence, before any keyword token, then the token after
\* "campaign(s) with/containing/including" and the token immediately before
\* "campaign(s)" when present; it is empty when neither pass finds anything.
C24_QuotedThenKeywordTokens ==
  Filtered =>
    /\ engineCall.value
         = FirstOccurrences(QuotedParts(1) \o TokenAfterPhrase \o TokenBeforeCampaign)
    /\ \A i, j \in DOMAIN engineCall.value :
         i # j => engineCall.value[i] # engineCall.value[j]
    /\ QuotedParts(1) = <<>> /\ TokenAfterPhrase = <<>> /\ TokenBeforeCampaign = <<>>
         => engineCall.value = <<>>

\* Two quoted parts, the first repeated, ahead of the token after "with",
\* which stands later in the query than the token before "campaign".
C24_Witness ==
  /\ Filtered
  /\ queryText = "\"a\" \"b\" \"a\" z campaign with y"
  /\ engineCall.value = <<"a", "b", "y", "z">>


---------------------------------------------------------------------------
(* Calling the engine twice: the same operation is applied two times to    *)
(* the same arguments on one engine instance, while time passes.           *)

CoreMethods ==
  {"calculatePeriodMetrics", "comparePerformance", "findCampaignPatterns",
   "detectSeasonalPatterns"}

\* What the operation returns for the arguments, read at the present time.
CoreResult ==
  IF method = "calculatePeriodMetrics" THEN calculatePeriodMetrics(period1Data, period1Label)
  ELSE IF method = "comparePerformance"
  THEN comparePerformance(period1Data, period2Data, period1Label, period2Label)
  ELSE IF method = "findCampaignPatterns" THEN findCampaignPatterns(queryText, period1Data)
  ELSE detectSeasonalPatterns(period1Data, clockMonth, tzBehind)

\* The constructor has run (its two fields are never read or written again)
\* and the arguments of the two calls are chosen; the year begins.
RepeatInit ==
  /\ method \in CoreMethods
  /\ period1Data \in {RowsAt(ix) : ix \in DistinctSeqs(1..Len(RowList), MaxRows - 1)}
  /\ period2Data \in IF method = "comparePerformance" THEN {<<>>, <<RowList[3]>>} ELSE {<<>>}
  /\ period1Label = "June 2024"
  /\ period2Label = "June 2023"
  /\ queryText \in IF method = "findCampaignPatterns"
                   THEN {"summer sale", "brand awareness promo"} ELSE {""}
  /\ clockMonth = 0
  /\ tzBehind \in IF method = "detectSeasonalPatterns" THEN BOOLEAN ELSE {FALSE}
  /\ engineCall = NoCall
  /\ earlierCall = NoCall
  /\ ServerIdle
  /\ MemoryIdle
  /\ clock = Clock(2026, 1, <<2026, 1, 2>>)

\* Three months go by on the wall clock.
AQuarterPasses ==
  /\ earlierCall = NoCall
  /\ clockMonth' = (clockMonth + 3) % 12
  /\ UNCHANGED <<period1Data, period2Data, period1Label, period2Label, tzBehind, method,
                 queryText, engineCall, earlierCall, serverVars, memoryVars>>

CallEngine ==
  /\ engineCall = NoCall
  /\ engineCall' = [fn |-> method, value |-> CoreResult]
  /\ UNCHANGED <<period1Data, period2Data, period1Label, period2Label, clockMonth, tzBehind,
                 method, queryText, earlierCall, serverVars, memoryVars>>

CallEngineAgain ==
  /\ engineCall # NoCall
  /\ earlierCall = NoCall
  /\ earlierCall' = engineCall
  /\ engineCall' = [fn |-> method, value |-> CoreResult]
  /\ UNCHANGED <<period1Data, period2Data, period1Label, period2Label, clockMonth, tzBehind,
                 method, queryText, serverVars, memoryVars>>

RepeatNext ==
  \/ AQuarterPasses
  \/ CallEngine
  \/ CallEngineAgain

SpecRepeat == RepeatInit /\ [][RepeatNext]_vars

CalledTwice == earlierCall # NoCall

\* C25: the core operations are functions of their arguments: a second call
\* of calculatePeriodMetrics, comparePerformance, findCampaignPatterns or
\* detectSeasonalPatterns with equal rows (rows without a date included)
\* returns what the first call returned, whatever the time of the calls and
\* whatever was called before on the same engine.
C25_SameRowsSameResult ==
  CalledTwice => engineCall.value = earlierCall.value

\* Every row carries a date of its own.
AllRowsDated ==
  \A i \in DOMAIN period1Data :
    period1Data[i].segmentsDate # NoDate \/ period1Data[i].date # NoDate

\* The second result is the first one for the three operations that do not
\* read the clock, and for detectSeasonalPatterns when every row is dated.
SameResultUnlessUndated ==
  CalledTwice /\ (method # "detectSeasonalPatterns" \/ AllRowsDated)
    => engineCall.value = earlierCall.value


---------------------------------------------------------------------------
(* Properties of the query text built for a request *)

\* The natural-language request runs the single-period analysis.
SinglePeriodRequest ==
  /\ request.entry = "flexible-query"
  /\ "analysis" \in DOMAIN request
  /\ SelectedOperation(request.analysis) = "executeSinglePeriodAnalysis"

\* C26: for every analysis type the selector returns (keyword, ad,
\* shopping, impressionShare, campaign) and every dated range,
\* buildDynamicQuery('<type>Intelligence', range, filter) completes without
\* error, the date predicate of the template replaced by segments.date
\* BETWEEN '<start>' AND '<end>' (and a campaign name condition added when a
\* filter is given); hence on the single-period path a successful upstream
\* call is answered with the metrics of the rows returned.
C26_DatedQueryBuilt ==
  SinglePeriodRequest =>
    /\ Len(calls) = 1
    /\ calls[1].query.kind = "text"
    /\ calls[1].query.dates = <<"BETWEEN", request.analysis.dateRanges.primary.start,
                                request.analysis.dateRanges.primary.end>>
    /\ pc = "done" /\ BothSucceeded
         => "performance" \in DOMAIN response.body.queryAnalysis.response

\* What happens instead: the request is answered at once, no call made,
\* with the failure of buildDynamicQuery, for each of the five types.
SinglePeriodNeverBuilt ==
  SinglePeriodRequest =>
    /\ request.analysis.analysisType
         \in {"keyword", "ad", "shopping", "impressionShare", "campaign"}
    /\ pc = "done"
    /\ calls = <<>>
    /\ response.body.queryAnalysis.response
         = CouldNotAnalyze(request.query,
             "Single period analysis failed: baseQuery.replace is not a function")

---------------------------------------------------------------------------
(* SimpleAIMemory as a state machine.  The constructor has run: loadMemory  *)
(* is suspended at its readFile.  A call of storeRecommendation or of       *)
(* storeOutcome runs up to its first await on the file system in one step;  *)
(* the file operations complete in any order, each resuming its caller.     *)

MaxCalls == 2   \* calls of storeRecommendation and storeOutcome in a run
MaxTicks == 1   \* milliseconds that pass during a run

MemoryAccounts == {"111", "222"}

Recommendations ==
  {[type |-> "budget", action |-> "raise the budget", expectedImpact |-> Null],
   [type |-> "bid", action |-> "lower the bids", expectedImpact |-> "+10%"]}

ActualResults ==
  {[improved |-> TRUE, actualImpact |-> Undefined, reason |-> Null],
   [improved |-> FALSE, actualImpact |-> Undefined, reason |-> "seasonal dip"],
   [improved |-> FALSE, actualImpact |-> Int2Num(8), reason |-> Null]}

\* The memory an earlier run of the server saved: one pending recommendation.
PriorMemory ==
  [EmptyMemory EXCEPT !.recommendations =
     <<RecommendationRecord("111", [type |-> "budget", action |-> "raise the budget",
                                    expectedImpact |-> Null], 0)>>]

IdsOf(recommendations) == {recommendations[i].id : i \in DOMAIN recommendations}

\* The ids a caller may pass to storeOutcome: ids it was given, ids in the
\* log, and one id that no recommendation has.
OutcomeIds ==
  IdsOf(memory.recommendations) \cup {returned[k] : k \in DOMAIN returned}
    \cup {"333_1"}

WriteOp(caller, id) == [content |-> Stringify(memory), caller |-> caller, id |-> id]

Without(seq, i) == SubSeq(seq, 1, i - 1) \o SubSeq(seq, i + 1, Len(seq))

MemoryInit ==
  /\ memory = EmptyMemory
  /\ memoryFile \in {<<>>, <<Stringify(PriorMemory)>>}
  /\ loading = [stage |-> "reading", data |-> <<>>]
  /\ writes = <<>>
  /\ returned = <<>>
  /\ nowMs = 1
  /\ memoryCall = NoMemoryCall
  /\ method = "none"
  /\ queryText = ""
  /\ tzBehind = FALSE
  /\ clock = Clock(2026, 11, <<2026, 11, 2>>)
  /\ period1Data = <<>>
  /\ period2Data = <<>>
  /\ period1Label = ""
  /\ period2Label = ""
  /\ clockMonth = 0
  /\ engineCall = NoCall
  /\ earlierCall = NoCall
  /\ ServerIdle

\* fs.readFile reads ai-memory.json, or finds that there is no such file.
ReadFileReads ==
  /\ loading.stage = "reading"
  /\ loading' = [stage |-> "read", data |-> memoryFile]
  /\ UNCHANGED <<memory, memoryFile, writes, returned, nowMs, memoryCall,
                 engineVars, serverVars>>

\* loadMemory resumes: this.memory = JSON.parse(data), or, when readFile
\* failed, the catch block starts saveMemory.
LoadMemoryResumes ==
  /\ loading.stage = "read"
  /\ IF loading.data # <<>>
     THEN /\ memory' = JSONParse(loading.data[1])
          /\ loading' = Loaded
          /\ UNCHANGED writes
     ELSE /\ writes' = Append(writes, WriteOp("loadMemory", ""))
          /\ loading' = [stage |-> "saving", data |-> <<>>]
          /\ UNCHANGED memory
  /\ UNCHANGED <<memoryFile, returned, nowMs, memoryCall, engineVars, serverVars>>

\* The caller of saveMemory resumes after the writeFile it awaited:
\* storeRecommendation returns its id, loadMemory and storeOutcome end.
ResumeCaller(op) ==
  /\ returned' = IF op.caller = "storeRecommendation"
                 THEN Append(returned, op.id) ELSE returned
  /\ loading' = IF op.caller = "loadMemory" THEN Loaded ELSE loading

\* One of the pending fs.writeFile operations writes its text.
WriteFileCompletes ==
  \E i \in DOMAIN writes :
    /\ memoryFile' = <<writes[i].content>>
    /\ writes' = Without(writes, i)
    /\ ResumeCaller(writes[i])
    /\ UNCHANGED <<memory, nowMs, memoryCall, engineVars, serverVars>>

\* One of them fails; saveMemory catches and logs the error.
WriteFileFails ==
  \E i \in DOMAIN writes :
    /\ writes' = Without(writes, i)
    /\ ResumeCaller(writes[i])
    /\ UNCHANGED <<memory, memoryFile, nowMs, memoryCall, engineVars, serverVars>>

\* storeRecommendation(accountId, recommendation) up to its await.
StoreRecommendation ==
  /\ memoryCall.n < MaxCalls
  /\ \E accountId \in MemoryAccounts, recommendation \in Recommendations :
       /\ memory' = [memory EXCEPT !.recommendations =
                       Append(@, RecommendationRecord(accountId, recommendation, nowMs))]
       /\ writes' = Append(writes, [content |-> Stringify(memory'),
                                    caller  |-> "storeRecommendation",
                                    id      |-> RecommendationId(accountId, nowMs)])
       /\ memoryCall' = [n      |-> memoryCall.n + 1,
                         method |-> "storeRecommendation",
                         id     |-> RecommendationId(accountId, nowMs),
                         index  |-> Len(memory.recommendations) + 1]
  /\ UNCHANGED <<memoryFile, loading, returned, nowMs, engineVars, serverVars>>

\* storeOutcome(recommendationId, actualResults) up to its last await; the
\* await of updatePatterns, which awaits nothing itself, is passed without
\* any file operation completing in between.
StoreOutcome ==
  /\ memoryCall.n < MaxCalls
  /\ \E recommendationId \in OutcomeIds, actualResults \in ActualResults :
       /\ memoryCall' = [n      |-> memoryCall.n + 1,
                         method |-> "storeOutcome",
                         id     |-> recommendationId,
                         index  |-> FindRecommendation(memory.recommendations,
                                                       recommendationId)]
       /\ IF memoryCall'.index = 0
          THEN UNCHANGED <<memory, writes>>
          ELSE /\ memory' =
                    OutcomeStored(memory, memoryCall'.index,
                                  OutcomeRecord(recommendationId,
                                                memory.recommendations[memoryCall'.index],
                                                actualResults, nowMs))
               /\ writes' = Append(writes, [content |-> Stringify(memory'),
                                            caller  |-> "storeOutcome",
                                            id      |-> recommendationId])
  /\ UNCHANGED <<memoryFile, loading, returned, nowMs, engineVars, serverVars>>

\* A millisecond passes.
Tick ==
  /\ nowMs <= MaxTicks
  /\ nowMs' = nowMs + 1
  /\ UNCHANGED <<memory, memoryFile, loading, writes, returned, memoryCall,
                 engineVars, serverVars>>

MemoryNext ==
  \/ ReadFileReads
  \/ LoadMemoryResumes
  \/ WriteFileCompletes
  \/ WriteFileFails
  \/ StoreRecommendation
  \/ StoreOutcome
  \/ Tick

SpecMemory == MemoryInit /\ [][MemoryNext]_vars

---------------------------------------------------------------------------
(* Properties of the recommendation log.                                    *)

ReturnedIds == {returned[k] : k \in DOMAIN returned}

\* C27: a recommendation recorded by storeRecommendation is never lost:
\* once storeRecommendation has returned an id, a record with that id is in
\* memory.recommendations in every later state, whatever the interleaving
\* with the loadMemory the constructor started and with other calls.
C27_RecordedNeverLost == ReturnedIds \subseteq IdsOf(memory.recommendations)

\* Once loadMemory has ended, every record in the log stays in it.
KeptAfterLoading ==
  [][loading = Loaded =>
       IdsOf(memory.recommendations) \subseteq IdsOf(memory'.recommendations)]_vars

\* The outcome records kept for a recommendation id.
OutcomesOf(id) ==
  {j \in DOMAIN memory.outcomes : memory.outcomes[j].recommendationId = id}

AtMostOneOutcome ==
  \A id \in IdsOf(memory.recommendations) : Cardinality(OutcomesOf(id)) <= 1

\* The completed recommendations of a type and an account.
CompletedOf(type, accountId) ==
  {i \in DOMAIN memory.recommendations :
     /\ memory.recommendations[i].status = "completed"
     /\ memory.recommendations[i].recommendation.type = type
     /\ memory.recommendations[i].accountId = accountId}

CountsAreCompleted(pattern) ==
  pattern.successCount + pattern.failureCount
    = Cardinality(CompletedOf(pattern.type, pattern.accountId))

ConfidenceIsRate(pattern) ==
  /\ pattern.confidence
       = Div(Int2Num(pattern.successCount),
             Int2Num(pattern.successCount + pattern.failureCount))
  /\ GtEq(pattern.confidence, Zero)
  /\ GtEq(Int2Num(1), pattern.confidence)

PatternsCountCompleted ==
  \A p \in DOMAIN memory.patterns : CountsAreCompleted(memory.patterns[p])

PatternsHoldRates ==
  \A p \in DOMAIN memory.patterns : ConfidenceIsRate(memory.patterns[p])

\* A record that is completed stays completed.
StaysCompleted ==
  \A i \in DOMAIN memory.recommendations :
    (/\ memory.recommendations[i].status = "completed"
     /\ i \in DOMAIN memory'.recommendations
     /\ memory'.recommendations[i].id = memory.recommendations[i].id)
      => memory'.recommendations[i].status = "completed"

\* C28: after any sequence of storeRecommendation and storeOutcome calls
\* each recommendation has at most one outcome record; for every pattern
\* key, successCount + failureCount is the number of completed
\* recommendations of that type and account, and confidence is
\* successCount / (successCount + failureCount), within [0, 1]; the status
\* of a recommendation only moves from 'pending' to 'completed'.
C28_OneOutcomePerRecommendation ==
  /\ [](AtMostOneOutcome /\ PatternsCountCompleted /\ PatternsHoldRates)
  /\ [][StaysCompleted]_vars

\* Once loadMemory has ended no completed record goes back to pending.
CompletedOnceLoaded == [][loading = Loaded => StaysCompleted]_vars

\* No element occurs twice in the sequence.
Distinct(seq) == \A i, j \in DOMAIN seq : seq[i] = seq[j] => i = j

IdSeq(recommendations) == [i \in DOMAIN recommendations |-> recommendations[i].id]

\* C29: the ids returned by storeRecommendation are pairwise distinct
\* across all stored recommendations, two recommendations stored for one
\* account in immediate succession included, so that storeOutcome(id, ...)
\* always updates the recommendation for which that id was returned.
C29_DistinctIds == Distinct(returned) /\ Distinct(IdSeq(memory.recommendations))

\* Two records share an id only when they were stored for the same account
\* within the same millisecond.
SameIdSameMillisecond ==
  \A i, j \in DOMAIN memory.recommendations :
    memory.recommendations[i].id = memory.recommendations[j].id
      => /\ memory.recommendations[i].accountId = memory.recommendations[j].accountId
         /\ memory.recommendations[i].timestamp = memory.recommendations[j].timestamp

\* The step is a call of storeOutcome with an id that no record in the log has.
OutcomeOfUnknownId ==
  /\ memoryCall'.n = memoryCall.n + 1
  /\ memoryCall'.method = "storeOutcome"
  /\ memoryCall'.id \notin IdsOf(memory.recommendations)

\* C30: storeOutcome called with an id that matches no stored
\* recommendation leaves recommendations, outcomes, patterns and failures
\* as they were, starts no save, and returns at once without an error.
C30_UnknownIdChangesNothing ==
  [][OutcomeOfUnknownId =>
       /\ memory' = memory
       /\ writes' = writes
       /\ memoryFile' = memoryFile
       /\ memoryCall'.index = 0]_vars

\* storeOutcome was called with an unknown id on a log that holds a
\* recommendation, and no save is pending.
C30_Witness ==
  /\ memoryCall.method = "storeOutcome"
  /\ memoryCall.index = 0
  /\ memoryCall.id \notin IdsOf(memory.recommendations)
  /\ memory.recommendations # <<>>
  /\ writes = <<>>

====
